---- MODULE Spec2Model ----
(***************************************************************************)
(* Chunk-apply engine of the runtime (runtime/runtime/src/lib.rs).         *)
(*                                                                         *)
(* The persisted trie is `store`; one call of Runtime::apply is the run    *)
(* BeginApply, UpdateValidators, TxStep*, LocalStep*, DelayedStep*,        *)
(* IncomingStep*, Finish, each step being one iteration of the             *)
(* corresponding loop of apply.  `su` is the TrieUpdate as the code reads  *)
(* it (committed and prospective changes), `cm` its committed part.        *)
(*                                                                         *)
(* Balance (u128) and Gas (u64) are scaled to U128_MAX and U64_MAX;     *)
(* checked additions fail above them exactly as the code's checked_add.    *)
(* Option<T> is a sequence of length 0 (None) or 1 (Some).                 *)
(* CryptoHash values are sequences; create_nonce_with_nonce(base, n) is    *)
(* the injective Append(base, n).                                          *)
(***************************************************************************)
EXTENDS Integers, Sequences, FiniteSets, TLC

VARIABLES
    store,   \* the persisted state behind the current state root
    height,  \* number of applies started so far (the next block_index)
    pool,    \* receipts and transactions the chain can still deliver
    pc,      \* position inside apply: idle, validators, txs, local, delayed, incoming, finish
    inp,     \* arguments of the running apply
    su,      \* state_update: what get() returns
    cm,      \* state_update: the committed part (what rollback() restores)
    loc,     \* local variables of apply
    res,     \* what the last apply returned
    hist     \* observation of the run, never read by the program

vars == <<store, height, pool, pc, inp, su, cm, loc, res, hist>>

----------------------------------------------------------------------------
(* Bounds of the model *)

MaxHeight == 2
MaxTxs == 2
MaxIncoming == 2

(* Scaled integer widths *)

U128_MAX == 200
U64_MAX == 60

(* RuntimeConfig: fees, rent, limits *)

ReceiptExecFee == 1
ReceiptSendFee == 1
TransferExecFee == 1
CreateAccountExecFee == 1
FunctionCallExecFee == 1
StakeExecFee == 1
DeleteAccountExecFee == 1
BurntGasRewardNum == 1
BurntGasRewardDen == 2
RentPerBlock == 1
MaxActionsPerReceipt == 2
FnBurn == 2
PromiseGas == 1
BulkSendFee == 30

(* ApplyState of the tests: gas_price and epoch_length *)

GAS_PRICE == 2
EPOCH_LENGTH == 3

----------------------------------------------------------------------------
(* Generic helpers *)

None == <<>>
Some(x) == <<x>>
IsSome(o) == Len(o) = 1
Unwrap(o) == o[1]

EmptyMap == [x \in {} |-> x]
MapHas(f, k) == k \in DOMAIN f
MapGet(f, k) == IF k \in DOMAIN f THEN Some(f[k]) ELSE None
MapSet(f, k, v) == [x \in (DOMAIN f) \cup {k} |-> IF x = k THEN v ELSE f[x]]
MapRemove(f, k) == [x \in (DOMAIN f) \ {k} |-> f[x]]

Max(a, b) == IF a >= b THEN a ELSE b
Min(a, b) == IF a <= b THEN a ELSE b

RECURSIVE SumSeq(_)
SumSeq(s) == IF s = <<>> THEN 0 ELSE Head(s) + SumSeq(Tail(s))

RECURSIVE SumSet(_, _)
SumSet(S, f) ==
    IF S = {} THEN 0
    ELSE LET x == CHOOSE y \in S : TRUE IN f[x] + SumSet(S \ {x}, f)

Range(s) == {s[i] : i \in 1..Len(s)}

\* sequences of distinct elements of S, of length at most n
RECURSIVE DistinctSeqs(_, _)
DistinctSeqs(S, n) ==
    IF n = 0 \/ S = {} THEN {<<>>}
    ELSE {<<>>} \cup UNION {{<<x>> \o t : t \in DistinctSeqs(S \ {x}, n - 1)} : x \in S}

----------------------------------------------------------------------------
(* Errors: RuntimeError as a record; index is the "#n" of a message (-1 if
   none), cause the error a message ends with ("" if none) *)

NoError == [kind |-> "", msg |-> "", index |-> -1, cause |-> ""]
Error(kind, msg, index) == [kind |-> kind, msg |-> msg, index |-> index, cause |-> ""]
ErrOverflow == Error("UnexpectedIntegerOverflow", "", -1)
ErrBalanceMismatch == Error("BalanceMismatch", "", -1)
ErrReceiptValidation(msg) == Error("ReceiptValidationError", msg, -1)
ErrInvalidTx(msg) == Error("InvalidTxError", msg, -1)
ErrStorage(msg, index) == Error("StorageInconsistentState", msg, index)
IsError(e) == e.kind # ""

----------------------------------------------------------------------------
(* Identifiers *)

system_account == "system"

create_nonce_with_nonce(base, salt) == Append(base, salt)

ValidAccountIds == {"alice", "bob", "carol", system_account}

----------------------------------------------------------------------------
(* Actions, receipts, transactions *)

Transfer(deposit) ==
    [kind |-> "Transfer", deposit |-> deposit, gas |-> 0, method_name |-> ""]
CreateAccount ==
    [kind |-> "CreateAccount", deposit |-> 0, gas |-> 0, method_name |-> ""]
FunctionCall(method_name, gas, deposit) ==
    [kind |-> "FunctionCall", deposit |-> deposit, gas |-> gas, method_name |-> method_name]
Stake(stake) ==
    [kind |-> "Stake", deposit |-> 0, gas |-> 0, method_name |-> "", stake |-> stake]
DeleteAccount(beneficiary_id) ==
    [kind |-> "DeleteAccount", deposit |-> 0, gas |-> 0, method_name |-> "",
     beneficiary_id |-> beneficiary_id]

ActionReceipt(predecessor_id, receiver_id, receipt_id, signer_id, gas_price, input_data_ids, output_data_receivers, actions) ==
    [predecessor_id |-> predecessor_id, receiver_id |-> receiver_id,
     receipt_id |-> receipt_id, type |-> "Action",
     signer_id |-> signer_id, gas_price |-> gas_price,
     input_data_ids |-> input_data_ids,
     output_data_receivers |-> output_data_receivers,
     actions |-> actions, data_id |-> "", data |-> None]

DataReceipt(predecessor_id, receiver_id, receipt_id, data_id, data) ==
    [predecessor_id |-> predecessor_id, receiver_id |-> receiver_id,
     receipt_id |-> receipt_id, type |-> "Data",
     signer_id |-> "", gas_price |-> 0,
     input_data_ids |-> <<>>, output_data_receivers |-> <<>>,
     actions |-> <<>>, data_id |-> data_id, data |-> data]

\* Receipt::new_refund(receiver_id, refund): id is set by the executing receipt
new_refund(receiver_id, refund) ==
    ActionReceipt(system_account, receiver_id, <<>>, system_account, 0,
                  <<>>, <<>>, <<Transfer(refund)>>)

SignedTransaction(hash, signer_id, receiver_id, actions, signed) ==
    [hash |-> hash, signer_id |-> signer_id, receiver_id |-> receiver_id,
     actions |-> actions, signed |-> signed]

----------------------------------------------------------------------------
(* config.rs: fees of an action list *)

exec_fee(action) ==
    CASE action.kind = "Transfer" -> TransferExecFee
      [] action.kind = "CreateAccount" -> CreateAccountExecFee
      [] action.kind = "FunctionCall" -> FunctionCallExecFee
      [] action.kind = "Stake" -> StakeExecFee
      [] action.kind = "DeleteAccount" -> DeleteAccountExecFee

total_deposit(actions) == SumSeq([i \in 1..Len(actions) |-> actions[i].deposit])
total_prepaid_gas(actions) == SumSeq([i \in 1..Len(actions) |-> actions[i].gas])
total_exec_fees(actions) == SumSeq([i \in 1..Len(actions) |-> exec_fee(actions[i])])

----------------------------------------------------------------------------
(* The trie state: near_store get/set of accounts, received data, postponed
   receipts, the delayed queue and contract storage *)

EmptyState ==
    [accounts |-> EmptyMap,   \* account_id -> Account
     data     |-> EmptyMap,   \* account_id -> contract storage value
     received |-> EmptyMap,   \* <<account_id, data_id>> -> Option<bytes>
     postponed |-> EmptyMap,  \* <<account_id, receipt_id>> -> Receipt
     pending  |-> EmptyMap,   \* <<account_id, receipt_id>> -> u32
     ppid     |-> EmptyMap,   \* <<account_id, data_id>> -> receipt_id
     delayed  |-> EmptyMap,   \* index -> Receipt
     indices  |-> None]       \* DELAYED_RECEIPT_INDICES

Account(amount, locked, storage_paid_at) ==
    [amount |-> amount, locked |-> locked, storage_paid_at |-> storage_paid_at]

get_account(st, account_id) == MapGet(st.accounts, account_id)
set_account(st, account_id, account) ==
    [st EXCEPT !.accounts = MapSet(@, account_id, account)]

get_received_data(st, account_id, data_id) == MapGet(st.received, <<account_id, data_id>>)
set_received_data(st, account_id, data_id, data) ==
    [st EXCEPT !.received = MapSet(@, <<account_id, data_id>>, data)]

DefaultIndices == [first_index |-> 0, next_available_index |-> 0]

\* get(&state_update, DELAYED_RECEIPT_INDICES)?.unwrap_or_default()
get_delayed_indices(st) == IF IsSome(st.indices) THEN Unwrap(st.indices) ELSE DefaultIndices

----------------------------------------------------------------------------
(* Rent (actions.rs): charged per block since the last charge, capped at the
   liquid amount; check_rent asks for epoch_length further blocks *)

rent_due(account, block_index) ==
    IF block_index > account.storage_paid_at
    THEN (block_index - account.storage_paid_at) * RentPerBlock ELSE 0

apply_rent(account, block_index) ==
    LET charge == Min(account.amount, rent_due(account, block_index))
    IN [rent_paid |-> charge,
        account |-> [account EXCEPT !.amount = @ - charge,
                                    !.storage_paid_at = block_index]]

\* Ok (0) or Err(amount): the balance that would be needed
check_rent(account, epoch_length) ==
    IF account.amount >= epoch_length * RentPerBlock THEN 0
    ELSE epoch_length * RentPerBlock

----------------------------------------------------------------------------
(* verifier.rs *)

\* "" when valid, else the ReceiptValidationError
validate_receipt(receipt) ==
    IF receipt.predecessor_id \notin ValidAccountIds THEN "InvalidPredecessorId"
    ELSE IF receipt.receiver_id \notin ValidAccountIds THEN "InvalidReceiverId"
    ELSE IF receipt.type = "Action" /\ receipt.signer_id \notin ValidAccountIds
         THEN "InvalidSignerId"
    ELSE IF receipt.type = "Action" /\ Len(receipt.actions) > MaxActionsPerReceipt
         THEN "TotalNumberOfActionsExceeded"
    ELSE ""

\* the fees of sending the receipt and its actions; a call of "bulk" stands for
\* a call with bulky arguments, whose fee grows with their size
tx_gas_burnt(tx) ==
    ReceiptSendFee
    + SumSeq([i \in 1..Len(tx.actions) |->
                 IF tx.actions[i].kind = "FunctionCall"
                    /\ tx.actions[i].method_name = "bulk"
                 THEN BulkSendFee ELSE 0])

tx_total_cost(ast, tx) ==
    total_deposit(tx.actions)
    + ast.gas_price * (tx_gas_burnt(tx) + ReceiptExecFee + total_exec_fees(tx.actions)
                       + total_prepaid_gas(tx.actions))

tx_rejected(st, e) ==
    [err |-> e, st |-> st,
     vr |-> [gas_burnt |-> 0, gas_used |-> 0, rent_paid |-> 0, validator_reward |-> 0]]

\* the signer pays rent, then the total cost, and must still cover the rent
charge_signer(st, ast, tx, rented, cost) ==
    IF cost > U128_MAX THEN tx_rejected(st, ErrOverflow)
    ELSE IF rented.account.amount < cost
    THEN tx_rejected(st, ErrInvalidTx("NotEnoughBalance"))
    ELSE IF check_rent([rented.account EXCEPT !.amount = @ - cost], ast.epoch_length) # 0
    THEN tx_rejected(st, ErrInvalidTx("RentUnpaid"))
    ELSE [err |-> NoError,
          st |-> set_account(st, tx.signer_id,
                             [rented.account EXCEPT !.amount = @ - cost]),
          vr |-> [gas_burnt |-> tx_gas_burnt(tx),
                  gas_used |-> tx_gas_burnt(tx) + ReceiptExecFee
                               + total_exec_fees(tx.actions)
                               + total_prepaid_gas(tx.actions),
                  rent_paid |-> rented.rent_paid,
                  validator_reward |-> ast.gas_price * tx_gas_burnt(tx)]]

verify_signer(st, ast, tx, signer) ==
    IF ~IsSome(signer) THEN tx_rejected(st, ErrInvalidTx("SignerDoesNotExist"))
    ELSE IF ~tx.signed THEN tx_rejected(st, ErrInvalidTx("InvalidSignature"))
    ELSE IF validate_receipt(ActionReceipt(tx.signer_id, tx.receiver_id, <<>>,
                 tx.signer_id, ast.gas_price, <<>>, <<>>, tx.actions)) # ""
    THEN tx_rejected(st, ErrInvalidTx("ActionsValidation"))
    ELSE charge_signer(st, ast, tx, apply_rent(Unwrap(signer), ast.block_index),
                       tx_total_cost(ast, tx))

\* [err, st, vr]: st is the state with the signer charged (not committed)
verify_and_charge_transaction(st, ast, tx) ==
    verify_signer(st, ast, tx, get_account(st, tx.signer_id))

----------------------------------------------------------------------------
(* ActionResult and ReturnData *)

RetNone == [tag |-> "None", value |-> "", index |-> -1, kind |-> ""]
RetValue(v) == [tag |-> "Value", value |-> v, index |-> -1, kind |-> ""]
RetReceiptIndex(i) == [tag |-> "ReceiptIndex", value |-> "", index |-> i, kind |-> ""]
\* Err(ActionError {index, kind}); index -1 is None
RetErr(kind) == [tag |-> "Err", value |-> "", index |-> -1, kind |-> kind]
is_ok(result) == result.tag # "Err"

DefaultActionResult ==
    [gas_burnt |-> 0, gas_burnt_for_function_call |-> 0, gas_used |-> 0,
     result |-> RetNone, logs |-> <<>>, new_receipts |-> <<>>,
     validator_proposals |-> <<>>]

ErrPanic(msg) == Error("Panic", msg, -1)

\* a variant of merge that keeps the accumulated receipts when the new result
\* is an error
merge_keeping_receipts(self, next_result) ==
    IF next_result.gas_burnt_for_function_call > next_result.gas_burnt
       \/ next_result.gas_burnt > next_result.gas_used
    THEN [err |-> ErrPanic("assertion failed"), r |-> self]
    ELSE IF self.gas_burnt + next_result.gas_burnt > U64_MAX
            \/ self.gas_burnt_for_function_call
               + next_result.gas_burnt_for_function_call > U64_MAX
            \/ self.gas_used + next_result.gas_used > U64_MAX
    THEN [err |-> ErrOverflow, r |-> self]
    ELSE
      LET shifted ==
            IF next_result.result.tag = "ReceiptIndex"
            THEN [next_result.result EXCEPT !.index = @ + Len(self.new_receipts)]
            ELSE next_result.result
      IN [err |-> NoError,
          r |-> [gas_burnt |-> self.gas_burnt + next_result.gas_burnt,
                 gas_burnt_for_function_call |->
                     self.gas_burnt_for_function_call
                     + next_result.gas_burnt_for_function_call,
                 gas_used |-> self.gas_used + next_result.gas_used,
                 result |-> shifted,
                 logs |-> self.logs \o next_result.logs,
                 new_receipts |->
                     IF is_ok(shifted) THEN self.new_receipts \o next_result.new_receipts
                     ELSE self.new_receipts,
                 validator_proposals |->
                     IF is_ok(shifted)
                     THEN self.validator_proposals \o next_result.validator_proposals
                     ELSE <<>>]]

\* ActionResult::merge: [err, r]
merge(self, next_result) ==
    IF next_result.gas_burnt_for_function_call > next_result.gas_burnt
       \/ next_result.gas_burnt > next_result.gas_used
    THEN [err |-> ErrPanic("assertion failed"), r |-> self]
    ELSE IF self.gas_burnt + next_result.gas_burnt > U64_MAX
            \/ self.gas_burnt_for_function_call
               + next_result.gas_burnt_for_function_call > U64_MAX
            \/ self.gas_used + next_result.gas_used > U64_MAX
    THEN [err |-> ErrOverflow, r |-> self]
    ELSE
      LET shifted ==
            IF next_result.result.tag = "ReceiptIndex"
            THEN [next_result.result EXCEPT !.index = @ + Len(self.new_receipts)]
            ELSE next_result.result
      IN [err |-> NoError,
          r |-> [gas_burnt |-> self.gas_burnt + next_result.gas_burnt,
                 gas_burnt_for_function_call |->
                     self.gas_burnt_for_function_call
                     + next_result.gas_burnt_for_function_call,
                 gas_used |-> self.gas_used + next_result.gas_used,
                 result |-> shifted,
                 logs |-> self.logs \o next_result.logs,
                 new_receipts |->
                     IF is_ok(shifted) THEN self.new_receipts \o next_result.new_receipts
                     ELSE <<>>,
                 validator_proposals |->
                     IF is_ok(shifted)
                     THEN self.validator_proposals \o next_result.validator_proposals
                     ELSE <<>>]]

----------------------------------------------------------------------------
(* actions.rs: the action executors *)

\* "" or the ActionErrorKind
check_account_existence(action, account, account_id) ==
    IF action.kind = "CreateAccount"
    THEN (IF IsSome(account) THEN "AccountAlreadyExists" ELSE "")
    ELSE (IF IsSome(account) THEN "" ELSE "AccountDoesNotExist")

check_actor_permissions(action, account, actor_id, account_id) ==
    IF action.kind \in {"DeployContract", "Stake", "AddKey", "DeleteKey", "DeleteAccount"}
       /\ actor_id # account_id
    THEN "ActorNoPermission" ELSE ""

\* the receipt a contract creates by a promise: a call of "set" on bob
promise_receipt(receipt) ==
    ActionReceipt(receipt.receiver_id, "bob", <<>>, receipt.signer_id, receipt.gas_price,
                  <<>>, <<>>, <<FunctionCall("set", PromiseGas, 0)>>)

\* the gas a contract uses, and does not burn, to create promise_receipt
promise_gas_used == ReceiptExecFee + FunctionCallExecFee + PromiseGas

\* the contract executor, by method: the state it writes, the gas it burns
\* and uses, the receipts it creates, what it returns
action_function_call(st, account, result, receipt, function_call) ==
    IF account.amount + function_call.deposit > U128_MAX
    THEN [err |-> ErrOverflow, st |-> st, account |-> account, result |-> result,
          actor_id |-> ""]
    ELSE
      LET burnt == Min(FnBurn, function_call.gas)
          forwards == function_call.method_name = "fwd"
          exceeded == forwards /\ function_call.gas < burnt + promise_gas_used
      IN [err |-> NoError,
          st |-> [st EXCEPT !.data = MapSet(@, receipt.receiver_id,
                                            function_call.method_name)],
          account |-> [account EXCEPT !.amount = @ + function_call.deposit],
          actor_id |-> "",
          result |-> [result EXCEPT
                        !.gas_burnt = @ + burnt,
                        !.gas_burnt_for_function_call = @ + burnt,
                        !.gas_used = @ + burnt
                                     + (IF forwards /\ ~exceeded
                                        THEN promise_gas_used ELSE 0),
                        !.logs = Append(@, "log"),
                        !.new_receipts = IF forwards /\ ~exceeded
                                         THEN Append(@, promise_receipt(receipt))
                                         ELSE @,
                        !.result = IF function_call.method_name = "fail" \/ exceeded
                                   THEN RetErr("FunctionCallError")
                                   ELSE IF forwards
                                   THEN RetReceiptIndex(Len(result.new_receipts))
                                   ELSE RetValue("v")]]

ActionOut(e, r, acc, actor, s) ==
    [err |-> e, result |-> r, account |-> acc, actor_id |-> actor, st |-> s]

\* the stake executor: locked becomes the stake, the difference moves from or
\* to amount, and a validator proposal is emitted
action_stake(st, account, actor_id, result, account_id, stake) ==
    IF account.locked = 0 /\ stake.stake = 0
    THEN ActionOut(NoError, [result EXCEPT !.result = RetErr("TriesToUnstake")],
                   Some(account), actor_id, st)
    ELSE IF account.amount + account.locked < stake.stake
    THEN ActionOut(NoError, [result EXCEPT !.result = RetErr("TriesToStake")],
                   Some(account), actor_id, st)
    ELSE ActionOut(NoError,
                   [result EXCEPT !.validator_proposals =
                        Append(@, [account_id |-> account_id, amount |-> stake.stake])],
                   Some([account EXCEPT
                            !.amount = account.amount + account.locked - stake.stake,
                            !.locked = stake.stake]),
                   actor_id, st)

\* the delete-account executor: the remaining amount is refunded to the
\* beneficiary and the state of the account is removed
action_delete_account(st, account, result, receipt, delete_account) ==
    IF account.locked > 0
    THEN ActionOut(NoError, [result EXCEPT !.result = RetErr("DeleteAccountStaking")],
                   Some(account), receipt.receiver_id, st)
    ELSE ActionOut(NoError,
                   [result EXCEPT !.new_receipts =
                        IF account.amount > 0
                        THEN Append(@, new_refund(delete_account.beneficiary_id,
                                                  account.amount))
                        ELSE @],
                   None, receipt.predecessor_id,
                   [st EXCEPT !.accounts = MapRemove(@, receipt.receiver_id),
                              !.data = MapRemove(@, receipt.receiver_id)])

\* lines 309-393: the match on the action, after the two checks passed
dispatch_action(action, st, ast, account, actor_id, receipt, result) ==
    CASE action.kind = "CreateAccount" ->
           ActionOut(NoError, result, Some(Account(0, 0, ast.block_index)),
                     receipt.receiver_id, st)
      [] action.kind = "Transfer" ->
           IF Unwrap(account).amount + action.deposit > U128_MAX
           THEN ActionOut(ErrOverflow, result, account, actor_id, st)
           ELSE ActionOut(NoError, result,
                          Some([Unwrap(account) EXCEPT !.amount = @ + action.deposit]),
                          actor_id, st)
      [] action.kind = "FunctionCall" ->
           [action_function_call(st, Unwrap(account), result, receipt, action)
               EXCEPT !.account = Some(@), !.actor_id = actor_id]
      [] action.kind = "Stake" ->
           action_stake(st, Unwrap(account), actor_id, result, receipt.receiver_id, action)
      [] action.kind = "DeleteAccount" ->
           action_delete_account(st, Unwrap(account), result, receipt, action)

\* lines 282-308: the existence and permission checks
checked_action(action, st, ast, account, actor_id, receipt, result, e1, e2) ==
    IF e1 # "" THEN ActionOut(NoError, [result EXCEPT !.result = RetErr(e1)],
                              account, actor_id, st)
    ELSE IF e2 # "" THEN ActionOut(NoError, [result EXCEPT !.result = RetErr(e2)],
                                   account, actor_id, st)
    ELSE dispatch_action(action, st, ast, account, actor_id, receipt, result)

\* Runtime::apply_action: [err, result, account, actor_id, st]
apply_action(action, st, ast, account, actor_id, receipt) ==
    checked_action(action, st, ast, account, actor_id, receipt,
                   [DefaultActionResult EXCEPT !.gas_burnt = exec_fee(action),
                                               !.gas_used = exec_fee(action)],
                   check_account_existence(action, account, receipt.receiver_id),
                   check_actor_permissions(action, account, actor_id, receipt.receiver_id))

\* lines 551 and 657-659 subtract without a check: a build with overflow checks
\* panics on underflow, a build without them wraps; the build is that of the
\* node the pool is delivered to
Wrapping == "wrapping" \in DOMAIN pool /\ pool.wrapping

----------------------------------------------------------------------------
(* Runtime::generate_refund_receipts: [err, result] *)

\* a variant of generate_refund_receipts that never merges the two refunds
generate_refund_receipts_unmerged(receipt, result) ==
    LET failed == ~is_ok(result.result)
        deposit_refund == IF failed THEN total_deposit(receipt.actions) ELSE 0
        gas_balance_refund ==
            receipt.gas_price
            * (total_prepaid_gas(receipt.actions) + total_exec_fees(receipt.actions)
               + ReceiptExecFee
               - (IF failed THEN result.gas_burnt ELSE result.gas_used))
        with_deposit ==
            IF deposit_refund > 0
            THEN Append(result.new_receipts,
                        new_refund(receipt.predecessor_id, deposit_refund))
            ELSE result.new_receipts
    IN [err |-> NoError,
        result |-> [result EXCEPT !.new_receipts =
                       IF gas_balance_refund > 0
                       THEN Append(with_deposit,
                                   new_refund(receipt.signer_id, gas_balance_refund))
                       ELSE with_deposit]]

generate_refund_receipts(receipt, result) ==
    LET total_dep == total_deposit(receipt.actions)
        prepaid_gas == total_prepaid_gas(receipt.actions)
        exec_gas == total_exec_fees(receipt.actions) + ReceiptExecFee
        failed == ~is_ok(result.result)
        deposit_refund == IF failed THEN total_dep ELSE 0
        gas_left == prepaid_gas + exec_gas
                    - (IF failed THEN result.gas_burnt ELSE result.gas_used)
        gas_refund == IF gas_left < 0 /\ Wrapping THEN gas_left + U64_MAX + 1
                      ELSE gas_left
        gas_balance_refund == receipt.gas_price * gas_refund
        merging == receipt.signer_id = receipt.predecessor_id
        deposit_refund2 == IF merging THEN deposit_refund + gas_balance_refund
                           ELSE deposit_refund
        gas_balance_refund2 == IF merging THEN 0 ELSE gas_balance_refund
        with_deposit ==
            IF deposit_refund2 > 0
            THEN Append(result.new_receipts,
                        new_refund(receipt.predecessor_id, deposit_refund2))
            ELSE result.new_receipts
        with_gas ==
            IF gas_balance_refund2 > 0
            THEN Append(with_deposit, new_refund(receipt.signer_id, gas_balance_refund2))
            ELSE with_deposit
    IN IF total_dep > U128_MAX \/ prepaid_gas + exec_gas > U64_MAX
       THEN [err |-> ErrOverflow, result |-> result]
       ELSE IF gas_refund < 0
       THEN [err |-> ErrPanic("attempt to subtract with overflow"), result |-> result]
       ELSE IF gas_balance_refund > U128_MAX \/ deposit_refund2 > U128_MAX
       THEN [err |-> ErrOverflow, result |-> result]
       ELSE [err |-> NoError, result |-> [result EXCEPT !.new_receipts = with_gas]]

----------------------------------------------------------------------------
(* Runtime::apply_action_receipt *)

ZeroStats ==
    [total_rent_paid |-> 0, total_validator_reward |-> 0,
     total_balance_burnt |-> 0, total_balance_slashed |-> 0]

\* the mutable arguments of process_receipt, and the error it returned if any
Ctx(err, st, committed, outgoing, proposals, stats) ==
    [err |-> err, su |-> st, cm |-> committed, outgoing |-> outgoing,
     proposals |-> proposals, stats |-> stats]

\* a variant of collect_promise_results that leaves the inputs in the state
RECURSIVE collect_promise_results_kept(_, _, _, _)
collect_promise_results_kept(st, account_id, input_data_ids, acc) ==
    IF input_data_ids = <<>> THEN [err |-> NoError, st |-> st, promise_results |-> acc]
    ELSE LET data_id == Head(input_data_ids)
             got == get_received_data(st, account_id, data_id)
         IN IF ~IsSome(got)
            THEN [err |-> ErrStorage("received data should be in the state", -1),
                  st |-> st, promise_results |-> acc]
            ELSE collect_promise_results_kept(
                     st,
                     account_id, Tail(input_data_ids),
                     Append(acc, IF IsSome(Unwrap(got))
                                 THEN [tag |-> "Successful", value |-> Unwrap(Unwrap(got))]
                                 ELSE [tag |-> "Failed", value |-> ""]))

\* lines 412-428: read and remove every input, in input_data_ids order
RECURSIVE collect_promise_results(_, _, _, _)
collect_promise_results(st, account_id, input_data_ids, acc) ==
    IF input_data_ids = <<>> THEN [err |-> NoError, st |-> st, promise_results |-> acc]
    ELSE LET data_id == Head(input_data_ids)
             got == get_received_data(st, account_id, data_id)
         IN IF ~IsSome(got)
            THEN [err |-> ErrStorage("received data should be in the state", -1),
                  st |-> st, promise_results |-> acc]
            ELSE collect_promise_results(
                     [st EXCEPT !.received = MapRemove(@, <<account_id, data_id>>)],
                     account_id, Tail(input_data_ids),
                     Append(acc, IF IsSome(Unwrap(got))
                                 THEN [tag |-> "Successful", value |-> Unwrap(Unwrap(got))]
                                 ELSE [tag |-> "Failed", value |-> ""]))

\* lines 447-477: the action loop; ls = [err, st, account, actor_id, result]
RECURSIVE run_actions(_, _, _, _)

\* a variant of merged_action that goes on to the next action after a failure
merged_action_nonstop(ls, action_index, ast, receipt, a, m) ==
    IF IsError(m.err) THEN [ls EXCEPT !.err = m.err]
    ELSE run_actions([err |-> NoError, st |-> a.st, account |-> a.account,
                      actor_id |-> a.actor_id,
                      result |-> IF is_ok(m.r.result) THEN m.r
                                 ELSE [m.r EXCEPT !.result.index = action_index]],
                     action_index + 1, ast, receipt)

\* lines 468-476: the merged result, the index of a failed action, the break
merged_action(ls, action_index, ast, receipt, a, m) ==
    IF IsError(m.err) THEN [ls EXCEPT !.err = m.err]
    ELSE IF ~is_ok(m.r.result)
    THEN [err |-> NoError, st |-> a.st, account |-> a.account, actor_id |-> a.actor_id,
          result |-> [m.r EXCEPT !.result.index = action_index]]
    ELSE run_actions([err |-> NoError, st |-> a.st, account |-> a.account,
                      actor_id |-> a.actor_id, result |-> m.r],
                     action_index + 1, ast, receipt)

\* lines 458-467: the new receipts of the action are validated, then merged
applied_action(ls, action_index, ast, receipt, a) ==
    IF IsError(a.err) THEN [ls EXCEPT !.err = a.err]
    ELSE merged_action(ls, action_index, ast, receipt, a,
             merge(ls.result,
                   IF is_ok(a.result.result)
                      /\ \E k \in 1..Len(a.result.new_receipts) :
                            validate_receipt(a.result.new_receipts[k]) # ""
                   THEN [a.result EXCEPT !.result = RetErr("NewReceiptValidationError")]
                   ELSE a.result))

run_actions(ls, action_index, ast, receipt) ==
    IF action_index >= Len(receipt.actions) THEN ls
    ELSE applied_action(ls, action_index, ast, receipt,
             apply_action(receipt.actions[action_index + 1], ls.st, ast,
                          ls.account, ls.actor_id, receipt))

\* lines 479-499: check_rent and set_account; [err, st, result]
rent_check(ls, ast, account_id) ==
    IF is_ok(ls.result.result) /\ IsSome(ls.account)
    THEN IF check_rent(Unwrap(ls.account), ast.epoch_length) # 0
         THEN LET m == merge(ls.result,
                             [DefaultActionResult EXCEPT !.result = RetErr("RentUnpaid")])
              IN [err |-> m.err, st |-> ls.st, result |-> m.r]
         ELSE [err |-> NoError, st |-> set_account(ls.st, account_id, Unwrap(ls.account)),
               result |-> ls.result]
    ELSE [err |-> NoError, st |-> ls.st, result |-> ls.result]

\* a variant of refund_or_system that burns the deposit of a failed system
\* receipt without reporting it
refund_or_system_unreported(receipt, result, stats) ==
    IF receipt.predecessor_id = system_account
    THEN [err |-> NoError, result |-> [result EXCEPT !.gas_burnt = 0, !.gas_used = 0],
          stats |-> stats]
    ELSE [err |-> generate_refund_receipts(receipt, result).err,
          result |-> generate_refund_receipts(receipt, result).result,
          stats |-> stats]

\* lines 501-516: refunds, or the free system receipt; [err, result, stats]
refund_or_system(receipt, result, stats) ==
    IF receipt.predecessor_id = system_account
    THEN LET free == [result EXCEPT !.gas_burnt = 0, !.gas_used = 0]
             burnt == stats.total_balance_burnt + total_deposit(receipt.actions)
         IN IF is_ok(result.result)
            THEN [err |-> NoError, result |-> free, stats |-> stats]
            ELSE IF burnt > U128_MAX
            THEN [err |-> ErrOverflow, result |-> free, stats |-> stats]
            ELSE [err |-> NoError, result |-> free,
                  stats |-> [stats EXCEPT !.total_balance_burnt = burnt]]
    ELSE [err |-> generate_refund_receipts(receipt, result).err,
          result |-> generate_refund_receipts(receipt, result).result,
          stats |-> stats]

\* a variant of commit_or_rollback that commits a failed receipt too
commit_or_rollback_committing(result, st, committed, stats, rent_paid) ==
    IF is_ok(result.result)
    THEN IF stats.total_rent_paid + rent_paid > U128_MAX
         THEN [err |-> ErrOverflow, st |-> st, cm |-> committed, stats |-> stats]
         ELSE [err |-> NoError, st |-> st, cm |-> st,
               stats |-> [stats EXCEPT !.total_rent_paid = @ + rent_paid]]
    ELSE [err |-> NoError, st |-> st, cm |-> st, stats |-> stats]

\* lines 521-532: commit(ReceiptProcessing) or rollback(); [err, st, cm, stats]
commit_or_rollback(result, st, committed, stats, rent_paid) ==
    IF is_ok(result.result)
    THEN IF stats.total_rent_paid + rent_paid > U128_MAX
         THEN [err |-> ErrOverflow, st |-> st, cm |-> committed, stats |-> stats]
         ELSE [err |-> NoError, st |-> st, cm |-> st,
               stats |-> [stats EXCEPT !.total_rent_paid = @ + rent_paid]]
    ELSE [err |-> NoError, st |-> committed, cm |-> committed, stats |-> stats]

\* a variant of gas_reward that leaves the validators the whole reward
gas_reward_undivided(receipt, result, st, committed, stats) ==
    LET receiver_gas_reward ==
            (result.gas_burnt_for_function_call * BurntGasRewardNum)
            \div BurntGasRewardDen
        validator_reward0 == receipt.gas_price * result.gas_burnt
        account == get_account(st, receipt.receiver_id)
        credit == receiver_gas_reward > 0 /\ IsSome(account)
        receiver_reward == receipt.gas_price * receiver_gas_reward
        validator_reward ==
            IF credit THEN validator_reward0 ELSE validator_reward0
        fail(e) == [err |-> e, st |-> st, cm |-> committed, stats |-> stats]
    IN IF validator_reward0 > U128_MAX THEN fail(ErrOverflow)
       ELSE IF credit /\ receiver_reward > U128_MAX THEN fail(ErrOverflow)
       ELSE IF credit /\ validator_reward < 0
       THEN fail(ErrPanic("attempt to subtract with overflow"))
       ELSE IF credit /\ Unwrap(account).amount + receiver_reward > U128_MAX
       THEN fail(ErrOverflow)
       ELSE IF stats.total_validator_reward + validator_reward > U128_MAX
       THEN fail(ErrOverflow)
       ELSE
         LET st2 == IF credit
                    THEN set_account(st, receipt.receiver_id,
                             [Unwrap(account) EXCEPT !.amount = @ + receiver_reward])
                    ELSE st
         IN [err |-> NoError, st |-> st2, cm |-> IF credit THEN st2 ELSE committed,
             stats |-> [stats EXCEPT !.total_validator_reward = @ + validator_reward]]

\* lines 534-557: the burnt-gas reward of the receiver; [err, st, cm, stats]
gas_reward(receipt, result, st, committed, stats) ==
    LET receiver_gas_reward ==
            (result.gas_burnt_for_function_call * BurntGasRewardNum)
            \div BurntGasRewardDen
        validator_reward0 == receipt.gas_price * result.gas_burnt
        account == get_account(st, receipt.receiver_id)
        credit == receiver_gas_reward > 0 /\ IsSome(account)
        receiver_reward == receipt.gas_price * receiver_gas_reward
        remaining == validator_reward0 - receiver_reward
        validator_reward ==
            IF ~credit THEN validator_reward0
            ELSE IF remaining < 0 /\ Wrapping THEN remaining + U128_MAX + 1
            ELSE remaining
        fail(e) == [err |-> e, st |-> st, cm |-> committed, stats |-> stats]
    IN IF validator_reward0 > U128_MAX THEN fail(ErrOverflow)
       ELSE IF credit /\ receiver_reward > U128_MAX THEN fail(ErrOverflow)
       ELSE IF credit /\ validator_reward < 0
       THEN fail(ErrPanic("attempt to subtract with overflow"))
       ELSE IF credit /\ Unwrap(account).amount + receiver_reward > U128_MAX
       THEN fail(ErrOverflow)
       ELSE IF stats.total_validator_reward + validator_reward > U128_MAX
       THEN fail(ErrOverflow)
       ELSE
         LET st2 == IF credit
                    THEN set_account(st, receipt.receiver_id,
                             [Unwrap(account) EXCEPT !.amount = @ + receiver_reward])
                    ELSE st
         IN [err |-> NoError, st |-> st2, cm |-> IF credit THEN st2 ELSE committed,
             stats |-> [stats EXCEPT !.total_validator_reward = @ + validator_reward]]

\* a variant of output_data that sends the data even when a new receipt is
\* returned
output_data_always_sent(receipt, result) ==
    IF receipt.output_data_receivers = <<>> THEN result.new_receipts
    ELSE LET data == IF result.result.tag = "Value" THEN Some(result.result.value)
                     ELSE IF is_ok(result.result) THEN Some("")
                     ELSE None
         IN result.new_receipts \o
            [i \in 1..Len(receipt.output_data_receivers) |->
                DataReceipt(receipt.receiver_id,
                            receipt.output_data_receivers[i].receiver_id, <<>>,
                            receipt.output_data_receivers[i].data_id, data)]

\* lines 559-597: result.new_receipts after the output data is generated
output_data(receipt, result) ==
    IF receipt.output_data_receivers = <<>> THEN result.new_receipts
    ELSE IF result.result.tag = "ReceiptIndex"
    THEN [result.new_receipts EXCEPT ![result.result.index + 1].output_data_receivers =
              @ \o receipt.output_data_receivers]
    ELSE LET data == IF result.result.tag = "Value" THEN Some(result.result.value)
                     ELSE IF is_ok(result.result) THEN Some("")
                     ELSE None
         IN result.new_receipts \o
            [i \in 1..Len(receipt.output_data_receivers) |->
                DataReceipt(receipt.receiver_id,
                            receipt.output_data_receivers[i].receiver_id, <<>>,
                            receipt.output_data_receivers[i].data_id, data)]

\* a variant of assign_receipt_ids that counts the new receipts from 1
assign_receipt_ids_from_one(receipt, new_receipts) ==
    [i \in 1..Len(new_receipts) |->
        [new_receipts[i] EXCEPT
            !.receipt_id = create_nonce_with_nonce(receipt.receipt_id, i)]]

\* lines 599-619: the new receipts with their ids
assign_receipt_ids(receipt, new_receipts) ==
    [i \in 1..Len(new_receipts) |->
        [new_receipts[i] EXCEPT
            !.receipt_id = create_nonce_with_nonce(receipt.receipt_id, i - 1)]]

IsActionReceipt(r) == r.type = "Action"
ReceiptIdsOf(receipts) == [i \in 1..Len(receipts) |-> receipts[i].receipt_id]

\* lines 621-628
execution_status(receipt, result) ==
    CASE result.tag = "ReceiptIndex" ->
           [tag |-> "SuccessReceiptId", value |-> "",
            receipt_id |-> create_nonce_with_nonce(receipt.receipt_id, result.index),
            kind |-> "", index |-> -1]
      [] result.tag = "Value" ->
           [tag |-> "SuccessValue", value |-> result.value, receipt_id |-> <<>>,
            kind |-> "", index |-> -1]
      [] result.tag = "None" ->
           [tag |-> "SuccessValue", value |-> "", receipt_id |-> <<>>,
            kind |-> "", index |-> -1]
      [] result.tag = "Err" ->
           [tag |-> "Failure", value |-> "", receipt_id |-> <<>>,
            kind |-> result.kind, index |-> result.index]

\* an error leaves apply_action_receipt: [ctx, outcome]
Failed(ctx, e) == [ctx |-> [ctx EXCEPT !.err = e], outcome |-> None]

\* lines 599-640: the ids of the new receipts, the outgoing list, the outcome
receipt_outcome(ctx, receipt, result, gr, new_receipts) ==
    IF IsError(gr.err) THEN Failed(ctx, gr.err)
    ELSE [ctx |-> Ctx(NoError, gr.st, gr.cm, ctx.outgoing \o new_receipts,
                      ctx.proposals \o result.validator_proposals, gr.stats),
          outcome |-> Some(
              [id |-> receipt.receipt_id,
               status |-> execution_status(receipt, result.result),
               logs |-> result.logs,
               receipt_ids |-> ReceiptIdsOf(SelectSeq(new_receipts, IsActionReceipt)),
               gas_burnt |-> result.gas_burnt])]

\* lines 534-619: the gas reward, the output data, the receipt ids
committed_receipt(ctx, receipt, result, cr) ==
    IF IsError(cr.err) THEN Failed(ctx, cr.err)
    ELSE receipt_outcome(ctx, receipt, result,
             gas_reward(receipt, result, cr.st, cr.cm, cr.stats),
             assign_receipt_ids(receipt, output_data(receipt, result)))

\* a variant of refunded_receipt whose rollback goes back to the state before
\* the receipt was started
refunded_receipt_unstarted(ctx, receipt, started, rent_paid, st, rf) ==
    IF IsError(rf.err) THEN Failed(ctx, rf.err)
    ELSE committed_receipt(ctx, receipt, rf.result,
             commit_or_rollback(rf.result, st, ctx.cm, rf.stats, rent_paid))

\* lines 519-532: the proposals, then commit or rollback
refunded_receipt(ctx, receipt, started, rent_paid, st, rf) ==
    IF IsError(rf.err) THEN Failed(ctx, rf.err)
    ELSE committed_receipt(ctx, receipt, rf.result,
             commit_or_rollback(rf.result, st, started, rf.stats, rent_paid))

\* lines 501-516
rent_checked_receipt(ctx, receipt, started, rent_paid, rc) ==
    IF IsError(rc.err) THEN Failed(ctx, rc.err)
    ELSE refunded_receipt(ctx, receipt, started, rent_paid, rc.st,
             refund_or_system(receipt, rc.result, ctx.stats))

\* lines 479-499
executed_receipt(ctx, ast, receipt, started, rent_paid, ls) ==
    IF IsError(ls.err) THEN Failed(ctx, ls.err)
    ELSE rent_checked_receipt(ctx, receipt, started, rent_paid,
             rent_check(ls, ast, receipt.receiver_id))

\* lines 441-477: the action loop starts from the rented account
rented_receipt(ctx, ast, receipt, started, account, rented) ==
    executed_receipt(ctx, ast, receipt, started, rented.rent_paid,
        run_actions([err |-> NoError, st |-> started,
                     account |-> IF IsSome(account) THEN Some(rented.account) ELSE None,
                     actor_id |-> receipt.predecessor_id,
                     result |-> [DefaultActionResult EXCEPT
                                    !.gas_used = ReceiptExecFee,
                                    !.gas_burnt = ReceiptExecFee]],
                    0, ast, receipt))

\* lines 434-440: the receiver's account and its rent
started_receipt(ctx, ast, receipt, started, account) ==
    rented_receipt(ctx, ast, receipt, started, account,
        IF IsSome(account) THEN apply_rent(Unwrap(account), ast.block_index)
        ELSE [rent_paid |-> 0, account |-> Account(0, 0, 0)])

\* line 432: commit(ActionReceiptProcessingStarted)
collected_receipt(ctx, ast, receipt, pr) ==
    IF IsError(pr.err) THEN Failed(ctx, pr.err)
    ELSE started_receipt(ctx, ast, receipt, pr.st,
                         get_account(pr.st, receipt.receiver_id))

\* [ctx, outcome]: outcome is None when an error is returned
apply_action_receipt(ctx, ast, receipt) ==
    collected_receipt(ctx, ast, receipt,
        collect_promise_results(ctx.su, receipt.receiver_id, receipt.input_data_ids, <<>>))

----------------------------------------------------------------------------
(* Runtime::process_receipt: [ctx, outcome] *)

\* lines 765-777: count the missing inputs and index them; [count, st]
RECURSIVE index_missing_inputs(_, _, _, _)

\* a variant of index_missing_inputs that counts an input without looking
\* whether its data has been received
RECURSIVE index_missing_inputs_unread(_, _, _, _)
index_missing_inputs_unread(st, receipt, input_data_ids, count) ==
    IF input_data_ids = <<>> THEN [count |-> count, st |-> st]
    ELSE index_missing_inputs_unread(
             [st EXCEPT !.ppid = MapSet(@, <<receipt.receiver_id, Head(input_data_ids)>>,
                                        receipt.receipt_id)],
             receipt, Tail(input_data_ids), count + 1)

index_missing_inputs(st, receipt, input_data_ids, count) ==
    IF input_data_ids = <<>> THEN [count |-> count, st |-> st]
    ELSE LET data_id == Head(input_data_ids)
         IN IF ~IsSome(get_received_data(st, receipt.receiver_id, data_id))
            THEN index_missing_inputs(
                     [st EXCEPT !.ppid = MapSet(@, <<receipt.receiver_id, data_id>>,
                                                receipt.receipt_id)],
                     receipt, Tail(input_data_ids), count + 1)
            ELSE index_missing_inputs(st, receipt, Tail(input_data_ids), count)

\* a variant of commit_postponed that leaves the changes uncommitted
commit_postponed_pending(ctx, st) ==
    [ctx |-> [ctx EXCEPT !.su = st], outcome |-> None]

\* lines 804-807: commit(PostponedReceipt), Ok(None)
commit_postponed(ctx, st) ==
    [ctx |-> [ctx EXCEPT !.su = st, !.cm = st], outcome |-> None]

\* a variant of process_data_receipt that keeps the pending count when inputs
\* are still missing
process_data_receipt_undecremented(ctx, ast, receipt) ==
    LET account_id == receipt.receiver_id
        failed(e) == [ctx |-> [ctx EXCEPT !.err = e], outcome |-> None]
        st1 == set_received_data(ctx.su, account_id, receipt.data_id, receipt.data)
        waiting == MapGet(st1.ppid, <<account_id, receipt.data_id>>)
    IN IF ~IsSome(waiting) THEN commit_postponed(ctx, st1)
       ELSE
       LET receipt_id == Unwrap(waiting)
           st2 == [st1 EXCEPT !.ppid = MapRemove(@, <<account_id, receipt.data_id>>)]
           pending_data_count == MapGet(st2.pending, <<account_id, receipt_id>>)
       IN IF ~IsSome(pending_data_count)
          THEN failed(ErrStorage("pending data count should be in the state", -1))
          ELSE IF Unwrap(pending_data_count) = 1
          THEN LET st3 == [st2 EXCEPT !.pending = MapRemove(@, <<account_id, receipt_id>>)]
                   ready_receipt == MapGet(st3.postponed, <<account_id, receipt_id>>)
               IN IF ~IsSome(ready_receipt)
                  THEN failed(ErrStorage("pending receipt should be in the state", -1))
                  ELSE apply_action_receipt(
                           [ctx EXCEPT !.su =
                               [st3 EXCEPT !.postponed =
                                   MapRemove(@, <<account_id, receipt_id>>)]],
                           ast, Unwrap(ready_receipt))
          ELSE IF Unwrap(pending_data_count) = 0
          THEN failed(ErrStorage(
                   "pending data count is 0, but there is a new DataReceipt", -1))
          ELSE commit_postponed(ctx,
                   [st2 EXCEPT !.pending = MapSet(@, <<account_id, receipt_id>>,
                                                  Unwrap(pending_data_count))])

\* lines 689-759
process_data_receipt(ctx, ast, receipt) ==
    LET account_id == receipt.receiver_id
        failed(e) == [ctx |-> [ctx EXCEPT !.err = e], outcome |-> None]
        st1 == set_received_data(ctx.su, account_id, receipt.data_id, receipt.data)
        waiting == MapGet(st1.ppid, <<account_id, receipt.data_id>>)
    IN IF ~IsSome(waiting) THEN commit_postponed(ctx, st1)
       ELSE
       LET receipt_id == Unwrap(waiting)
           st2 == [st1 EXCEPT !.ppid = MapRemove(@, <<account_id, receipt.data_id>>)]
           pending_data_count == MapGet(st2.pending, <<account_id, receipt_id>>)
       IN IF ~IsSome(pending_data_count)
          THEN failed(ErrStorage("pending data count should be in the state", -1))
          ELSE IF Unwrap(pending_data_count) = 1
          THEN LET st3 == [st2 EXCEPT !.pending = MapRemove(@, <<account_id, receipt_id>>)]
                   ready_receipt == MapGet(st3.postponed, <<account_id, receipt_id>>)
               IN IF ~IsSome(ready_receipt)
                  THEN failed(ErrStorage("pending receipt should be in the state", -1))
                  ELSE apply_action_receipt(
                           [ctx EXCEPT !.su =
                               [st3 EXCEPT !.postponed =
                                   MapRemove(@, <<account_id, receipt_id>>)]],
                           ast, Unwrap(ready_receipt))
          ELSE IF Unwrap(pending_data_count) = 0
          THEN failed(ErrStorage(
                   "pending data count is 0, but there is a new DataReceipt", -1))
          ELSE commit_postponed(ctx,
                   [st2 EXCEPT !.pending = MapSet(@, <<account_id, receipt_id>>,
                                                  Unwrap(pending_data_count) - 1)])

\* a variant of process_action_receipt that indexes a receipt with missing
\* inputs but does not store it
process_action_receipt_unstored(ctx, ast, receipt) ==
    LET indexed == index_missing_inputs(ctx.su, receipt, receipt.input_data_ids, 0)
        key == <<receipt.receiver_id, receipt.receipt_id>>
    IN IF indexed.count = 0
       THEN apply_action_receipt([ctx EXCEPT !.su = indexed.st], ast, receipt)
       ELSE commit_postponed(ctx,
                [indexed.st EXCEPT !.pending = MapSet(@, key, indexed.count)])

\* lines 760-802
process_action_receipt(ctx, ast, receipt) ==
    LET indexed == index_missing_inputs(ctx.su, receipt, receipt.input_data_ids, 0)
        key == <<receipt.receiver_id, receipt.receipt_id>>
    IN IF indexed.count = 0
       THEN apply_action_receipt([ctx EXCEPT !.su = indexed.st], ast, receipt)
       ELSE commit_postponed(ctx,
                [indexed.st EXCEPT !.pending = MapSet(@, key, indexed.count),
                                   !.postponed = MapSet(@, key, receipt)])

process_receipt(ctx, ast, receipt) ==
    IF receipt.type = "Data" THEN process_data_receipt(ctx, ast, receipt)
    ELSE process_action_receipt(ctx, ast, receipt)

----------------------------------------------------------------------------
(* Runtime::update_validator_accounts: [err, st, stats].  stake_order and
   slash_order are the iteration orders of the two HashMaps *)

ValidatorAccountsUpdate(stake_info, validator_rewards, last_proposals, protocol_treasury_account_id, slashing_info) ==
    [stake_info |-> stake_info, validator_rewards |-> validator_rewards,
     last_proposals |-> last_proposals,
     protocol_treasury_account_id |-> protocol_treasury_account_id,
     slashing_info |-> slashing_info]

\* a variant of return_stakes that stops at an account that is not found,
\* keeping the accounts it has updated
RECURSIVE return_stakes_until_missing(_, _, _)
return_stakes_until_missing(st, vau, stake_order) ==
    IF stake_order = <<>> THEN [err |-> NoError, st |-> st]
    ELSE LET account == get_account(st, Head(stake_order))
             reward == IF MapHas(vau.validator_rewards, Head(stake_order))
                       THEN vau.validator_rewards[Head(stake_order)] ELSE 0
             kept == Max(vau.stake_info[Head(stake_order)],
                         IF MapHas(vau.last_proposals, Head(stake_order))
                         THEN vau.last_proposals[Head(stake_order)] ELSE 0)
         IN IF ~IsSome(account) THEN [err |-> NoError, st |-> st]
            ELSE IF Unwrap(account).locked + reward < kept
                    \/ Unwrap(account).amount + Unwrap(account).locked + reward > U128_MAX
            THEN [err |-> ErrStorage("FATAL: staking invariant does not hold", -1),
                  st |-> st]
            ELSE return_stakes_until_missing(
                     set_account(st, Head(stake_order),
                         [Unwrap(account) EXCEPT
                             !.locked = kept,
                             !.amount = @ + Unwrap(account).locked + reward - kept]),
                     vau, Tail(stake_order))

\* a variant of return_stakes that keeps max_of_stakes locked, whatever the
\* last proposal
RECURSIVE return_stakes_to_max_of_stakes(_, _, _)
return_stakes_to_max_of_stakes(st, vau, stake_order) ==
    IF stake_order = <<>> THEN [err |-> NoError, st |-> st]
    ELSE
      LET account_id == Head(stake_order)
          max_of_stakes == vau.stake_info[account_id]
          account == get_account(st, account_id)
      IN IF ~IsSome(account)
         THEN [err |-> ErrStorage("Account with max of stakes is not found", -1),
               st |-> st]
         ELSE
           LET reward == IF MapHas(vau.validator_rewards, account_id)
                         THEN vau.validator_rewards[account_id] ELSE 0
               locked == Unwrap(account).locked + reward
               return_stake == locked - max_of_stakes
           IN IF locked > U128_MAX THEN [err |-> ErrOverflow, st |-> st]
              ELSE IF locked < max_of_stakes
              THEN [err |-> ErrStorage("FATAL: staking invariant does not hold", -1),
                    st |-> st]
              ELSE IF Unwrap(account).amount + return_stake > U128_MAX
              THEN [err |-> ErrOverflow, st |-> st]
              ELSE return_stakes_to_max_of_stakes(
                       set_account(st, account_id,
                           [Unwrap(account) EXCEPT !.locked = locked - return_stake,
                                                   !.amount = @ + return_stake]),
                       vau, Tail(stake_order))

\* lines 819-864
RECURSIVE return_stakes(_, _, _)
return_stakes(st, vau, stake_order) ==
    IF stake_order = <<>> THEN [err |-> NoError, st |-> st]
    ELSE
      LET account_id == Head(stake_order)
          max_of_stakes == vau.stake_info[account_id]
          account == get_account(st, account_id)
      IN IF ~IsSome(account)
         THEN [err |-> ErrStorage("Account with max of stakes is not found", -1),
               st |-> st]
         ELSE
           LET reward == IF MapHas(vau.validator_rewards, account_id)
                         THEN vau.validator_rewards[account_id] ELSE 0
               locked == Unwrap(account).locked + reward
               last_proposal == IF MapHas(vau.last_proposals, account_id)
                                THEN vau.last_proposals[account_id] ELSE 0
               return_stake == locked - Max(max_of_stakes, last_proposal)
           IN IF locked > U128_MAX THEN [err |-> ErrOverflow, st |-> st]
              ELSE IF locked < max_of_stakes
              THEN [err |-> ErrStorage("FATAL: staking invariant does not hold", -1),
                    st |-> st]
              ELSE IF return_stake < 0 THEN [err |-> ErrOverflow, st |-> st]
              ELSE IF Unwrap(account).amount + return_stake > U128_MAX
              THEN [err |-> ErrOverflow, st |-> st]
              ELSE return_stakes(
                       set_account(st, account_id,
                           [Unwrap(account) EXCEPT !.locked = locked - return_stake,
                                                   !.amount = @ + return_stake]),
                       vau, Tail(stake_order))

\* a variant of slash_accounts that slashes the whole locked balance, whatever
\* the stake given
RECURSIVE slash_accounts_whole(_, _, _, _)
slash_accounts_whole(st, stats, vau, slash_order) ==
    IF slash_order = <<>> THEN [err |-> NoError, st |-> st, stats |-> stats]
    ELSE
      LET account_id == Head(slash_order)
          account == get_account(st, account_id)
      IN IF ~IsSome(account)
         THEN [err |-> ErrStorage("Account to slash is not found", -1),
               st |-> st, stats |-> stats]
         ELSE
           LET amount_to_slash == Unwrap(account).locked
           IN IF stats.total_balance_slashed + amount_to_slash > U128_MAX
              THEN [err |-> ErrOverflow, st |-> st, stats |-> stats]
              ELSE slash_accounts_whole(
                       set_account(st, account_id,
                           [Unwrap(account) EXCEPT !.locked = @ - amount_to_slash]),
                       [stats EXCEPT !.total_balance_slashed = @ + amount_to_slash],
                       vau, Tail(slash_order))

\* lines 866-891
RECURSIVE slash_accounts(_, _, _, _)
slash_accounts(st, stats, vau, slash_order) ==
    IF slash_order = <<>> THEN [err |-> NoError, st |-> st, stats |-> stats]
    ELSE
      LET account_id == Head(slash_order)
          stake == vau.slashing_info[account_id]
          account == get_account(st, account_id)
      IN IF ~IsSome(account)
         THEN [err |-> ErrStorage("Account to slash is not found", -1),
               st |-> st, stats |-> stats]
         ELSE
           LET amount_to_slash == IF IsSome(stake) THEN Unwrap(stake)
                                  ELSE Unwrap(account).locked
           IN IF Unwrap(account).locked < amount_to_slash
              THEN [err |-> ErrStorage("FATAL: staking invariant does not hold", -1),
                    st |-> st, stats |-> stats]
              ELSE IF stats.total_balance_slashed + amount_to_slash > U128_MAX
              THEN [err |-> ErrOverflow, st |-> st, stats |-> stats]
              ELSE slash_accounts(
                       set_account(st, account_id,
                           [Unwrap(account) EXCEPT !.locked = @ - amount_to_slash]),
                       [stats EXCEPT !.total_balance_slashed = @ + amount_to_slash],
                       vau, Tail(slash_order))

\* a variant of reward_treasury that does not look at stake_info
reward_treasury_again(st, vau) ==
    IF IsSome(vau.protocol_treasury_account_id)
    THEN LET account_id == Unwrap(vau.protocol_treasury_account_id)
             account == get_account(st, account_id)
         IN IF ~IsSome(account)
            THEN [err |-> ErrStorage("Protocol treasury account is not found", -1),
                  st |-> st]
            ELSE IF ~MapHas(vau.validator_rewards, account_id)
            THEN [err |-> ErrStorage(
                      "Validator reward for the protocol treasury account is not found",
                      -1),
                  st |-> st]
            ELSE IF Unwrap(account).amount + vau.validator_rewards[account_id] > U128_MAX
            THEN [err |-> ErrOverflow, st |-> st]
            ELSE [err |-> NoError,
                  st |-> set_account(st, account_id,
                             [Unwrap(account) EXCEPT
                                 !.amount = @ + vau.validator_rewards[account_id]])]
    ELSE [err |-> NoError, st |-> st]

\* lines 893-917
reward_treasury(st, vau) ==
    IF IsSome(vau.protocol_treasury_account_id)
       /\ ~MapHas(vau.stake_info, Unwrap(vau.protocol_treasury_account_id))
    THEN LET account_id == Unwrap(vau.protocol_treasury_account_id)
             account == get_account(st, account_id)
         IN IF ~IsSome(account)
            THEN [err |-> ErrStorage("Protocol treasury account is not found", -1),
                  st |-> st]
            ELSE IF ~MapHas(vau.validator_rewards, account_id)
            THEN [err |-> ErrStorage(
                      "Validator reward for the protocol treasury account is not found",
                      -1),
                  st |-> st]
            ELSE IF Unwrap(account).amount + vau.validator_rewards[account_id] > U128_MAX
            THEN [err |-> ErrOverflow, st |-> st]
            ELSE [err |-> NoError,
                  st |-> set_account(st, account_id,
                             [Unwrap(account) EXCEPT
                                 !.amount = @ + vau.validator_rewards[account_id]])]
    ELSE [err |-> NoError, st |-> st]

\* lines 893-919: the treasury reward, commit(UpdatedValidatorAccounts)
after_slashing(st, vau, stats, slashed) ==
    IF IsError(slashed.err) THEN [err |-> slashed.err, st |-> st, stats |-> stats]
    ELSE [err |-> reward_treasury(slashed.st, vau).err,
          st |-> reward_treasury(slashed.st, vau).st,
          stats |-> slashed.stats]

\* lines 866-891
after_stakes(st, vau, stats, slash_order, staked) ==
    IF IsError(staked.err) THEN [err |-> staked.err, st |-> st, stats |-> stats]
    ELSE after_slashing(st, vau, stats,
                        slash_accounts(staked.st, stats, vau, slash_order))

update_validator_accounts(st, vau, stats, stake_order, slash_order) ==
    after_stakes(st, vau, stats, slash_order, return_stakes(st, vau, stake_order))

----------------------------------------------------------------------------
(* balance_checker.rs: check_balance *)

\* what a receipt carries: deposits, and for a non-system receipt its gas
receipt_cost(receipt) ==
    IF receipt.type = "Data" THEN 0
    ELSE total_deposit(receipt.actions)
         + (IF receipt.predecessor_id = system_account THEN 0
            ELSE receipt.gas_price
                 * (ReceiptExecFee + total_exec_fees(receipt.actions)
                    + total_prepaid_gas(receipt.actions)))

receipts_cost(receipts) == SumSeq([i \in 1..Len(receipts) |-> receipt_cost(receipts[i])])

accounts_balance(st) ==
    SumSet(DOMAIN st.accounts,
           [a \in DOMAIN st.accounts |-> st.accounts[a].amount + st.accounts[a].locked])

stored_receipts_balance(m) == SumSet(DOMAIN m, [k \in DOMAIN m |-> receipt_cost(m[k])])

minted_rewards(vau_opt) ==
    IF IsSome(vau_opt)
    THEN SumSet(DOMAIN Unwrap(vau_opt).validator_rewards, Unwrap(vau_opt).validator_rewards)
    ELSE 0

initial_balance(initial_state, vau_opt, incoming_receipts) ==
    accounts_balance(initial_state)
    + receipts_cost(incoming_receipts)
    + stored_receipts_balance(initial_state.delayed)
    + stored_receipts_balance(initial_state.postponed)
    + minted_rewards(vau_opt)

final_balance(final_state, outgoing_receipts, stats) ==
    accounts_balance(final_state)
    + receipts_cost(outgoing_receipts)
    + stored_receipts_balance(final_state.delayed)
    + stored_receipts_balance(final_state.postponed)
    + stats.total_rent_paid + stats.total_validator_reward
    + stats.total_balance_burnt + stats.total_balance_slashed

compare_balance(initial, final) ==
    IF initial > U128_MAX \/ final > U128_MAX THEN ErrOverflow
    ELSE IF initial # final THEN ErrBalanceMismatch
    ELSE NoError

\* NoError, UnexpectedIntegerOverflow or BalanceMismatch
check_balance(initial_state, final_state, vau_opt, incoming_receipts, outgoing_receipts, stats) ==
    compare_balance(initial_balance(initial_state, vau_opt, incoming_receipts),
                    final_balance(final_state, outgoing_receipts, stats))

----------------------------------------------------------------------------
(* Runtime::process_transaction: [err, st, cm, stats, receipt, outcome] *)

\* a variant of verified_transaction that rolls back a rejected transaction
\* and goes on
verified_transaction_skipped(committed, ast, tx, stats, v) ==
    LET receipt == ActionReceipt(tx.signer_id, tx.receiver_id,
                                 create_nonce_with_nonce(tx.hash, 0),
                                 tx.signer_id, ast.gas_price, <<>>, <<>>, tx.actions)
        st == IF IsError(v.err) THEN committed ELSE v.st
    IN [err |-> NoError, st |-> st, cm |-> st,
        stats |-> [stats EXCEPT !.total_rent_paid = @ + v.vr.rent_paid,
                                !.total_validator_reward = @ + v.vr.validator_reward],
        receipt |-> receipt,
        outcome |-> [id |-> tx.hash,
                     status |-> [tag |-> "SuccessReceiptId", value |-> "",
                                 receipt_id |-> create_nonce_with_nonce(tx.hash, 0),
                                 kind |-> "", index |-> -1],
                     logs |-> <<>>,
                     receipt_ids |-> <<create_nonce_with_nonce(tx.hash, 0)>>,
                     gas_burnt |-> v.vr.gas_burnt]]

\* a variant of verified_transaction that leaves the verifier's validator
\* reward out of the stats
verified_transaction_unrewarded(committed, ast, tx, stats, v) ==
    LET receipt == ActionReceipt(tx.signer_id, tx.receiver_id,
                                 create_nonce_with_nonce(tx.hash, 0),
                                 tx.signer_id, ast.gas_price, <<>>, <<>>, tx.actions)
        outcome == [id |-> tx.hash,
                    status |-> [tag |-> "SuccessReceiptId", value |-> "",
                                receipt_id |-> create_nonce_with_nonce(tx.hash, 0),
                                kind |-> "", index |-> -1],
                    logs |-> <<>>,
                    receipt_ids |-> <<create_nonce_with_nonce(tx.hash, 0)>>,
                    gas_burnt |-> v.vr.gas_burnt]
        out(e, s, c, t) == [err |-> e, st |-> s, cm |-> c, stats |-> t,
                            receipt |-> receipt, outcome |-> outcome]
    IN IF IsError(v.err)
       THEN out(v.err, committed, committed, stats)
       ELSE IF stats.total_rent_paid + v.vr.rent_paid > U128_MAX
       THEN out(ErrOverflow, v.st, v.st, stats)
       ELSE out(NoError, v.st, v.st,
                [stats EXCEPT !.total_rent_paid = @ + v.vr.rent_paid])

\* lines 229-268: commit and the receipt and outcome, or rollback and the error
verified_transaction(committed, ast, tx, stats, v) ==
    LET receipt == ActionReceipt(tx.signer_id, tx.receiver_id,
                                 create_nonce_with_nonce(tx.hash, 0),
                                 tx.signer_id, ast.gas_price, <<>>, <<>>, tx.actions)
        outcome == [id |-> tx.hash,
                    status |-> [tag |-> "SuccessReceiptId", value |-> "",
                                receipt_id |-> create_nonce_with_nonce(tx.hash, 0),
                                kind |-> "", index |-> -1],
                    logs |-> <<>>,
                    receipt_ids |-> <<create_nonce_with_nonce(tx.hash, 0)>>,
                    gas_burnt |-> v.vr.gas_burnt]
        out(e, s, c, t) == [err |-> e, st |-> s, cm |-> c, stats |-> t,
                            receipt |-> receipt, outcome |-> outcome]
    IN IF IsError(v.err)
       THEN out(v.err, committed, committed, stats)       \* rollback()
       ELSE IF stats.total_rent_paid + v.vr.rent_paid > U128_MAX
               \/ stats.total_validator_reward + v.vr.validator_reward > U128_MAX
       THEN out(ErrOverflow, v.st, v.st, stats)
       ELSE out(NoError, v.st, v.st,                      \* commit(TransactionProcessing)
                [stats EXCEPT !.total_rent_paid = @ + v.vr.rent_paid,
                              !.total_validator_reward = @ + v.vr.validator_reward])

process_transaction(st, committed, ast, tx, stats) ==
    verified_transaction(committed, ast, tx, stats,
                         verify_and_charge_transaction(st, ast, tx))

----------------------------------------------------------------------------
(* Runtime::delay_receipt: [err, st, indices] *)

delay_receipt(st, indices, receipt) ==
    IF indices.next_available_index + 1 > U64_MAX
    THEN [err |-> ErrStorage(
              "Next available index for delayed receipt exceeded the integer limit", -1),
          st |-> st, indices |-> indices]
    ELSE [err |-> NoError,
          st |-> [st EXCEPT !.delayed =
                     MapSet(@, indices.next_available_index, receipt)],
          indices |-> [indices EXCEPT !.next_available_index = @ + 1]]

----------------------------------------------------------------------------
(* Local variables of apply, and the closure process_receipt of lines 982-1004 *)

InitLoc ==
    [stats |-> ZeroStats, outgoing |-> <<>>, proposals |-> <<>>,
     local_receipts |-> <<>>, outcomes |-> <<>>, total_gas_burnt |-> 0,
     indices |-> DefaultIndices, initial_indices |-> DefaultIndices, i |-> 0]

\* a variant of counted_receipt that puts the new outcome first
counted_receipt_first(l, p) ==
    LET out(e, l2) == [err |-> e, su |-> p.ctx.su, cm |-> p.ctx.cm, loc |-> l2,
                       outcome |-> p.outcome, delayed |-> FALSE]
        l1 == [l EXCEPT !.outgoing = p.ctx.outgoing, !.proposals = p.ctx.proposals,
                        !.stats = p.ctx.stats]
    IN IF IsError(p.ctx.err) THEN out(p.ctx.err, l)
       ELSE IF ~IsSome(p.outcome) THEN out(NoError, l1)
       ELSE out(NoError, [l1 EXCEPT !.total_gas_burnt = @ + Unwrap(p.outcome).gas_burnt,
                                    !.outcomes = <<Unwrap(p.outcome)>> \o @])

\* a variant of counted_receipt that records the outcome without counting
\* its gas
counted_receipt_uncounted(l, p) ==
    LET out(e, l2) == [err |-> e, su |-> p.ctx.su, cm |-> p.ctx.cm, loc |-> l2,
                       outcome |-> p.outcome, delayed |-> FALSE]
        l1 == [l EXCEPT !.outgoing = p.ctx.outgoing, !.proposals = p.ctx.proposals,
                        !.stats = p.ctx.stats]
    IN IF IsError(p.ctx.err) THEN out(p.ctx.err, l)
       ELSE IF ~IsSome(p.outcome) THEN out(NoError, l1)
       ELSE out(NoError, [l1 EXCEPT !.outcomes = Append(@, Unwrap(p.outcome))])

\* lines 994-1003: the outcome, if any, is counted and recorded
counted_receipt(l, p) ==
    LET burnt == IF IsSome(p.outcome) THEN Unwrap(p.outcome).gas_burnt ELSE 0
        out(e, l2) == [err |-> e, su |-> p.ctx.su, cm |-> p.ctx.cm, loc |-> l2,
                       outcome |-> p.outcome, delayed |-> FALSE]
        l1 == [l EXCEPT !.outgoing = p.ctx.outgoing, !.proposals = p.ctx.proposals,
                        !.stats = p.ctx.stats]
    IN IF IsError(p.ctx.err) THEN out(p.ctx.err, l)
       ELSE IF ~IsSome(p.outcome) THEN out(NoError, l1)
       ELSE IF l.total_gas_burnt + burnt > U64_MAX THEN out(ErrOverflow, l)
       ELSE out(NoError, [l1 EXCEPT !.total_gas_burnt = @ + burnt,
                                    !.outcomes = Append(@, Unwrap(p.outcome))])

\* [err, su, cm, loc, outcome, delayed]
run_process_receipt(l, st, committed, ast, receipt) ==
    counted_receipt(l, process_receipt(Ctx(NoError, st, committed, l.outgoing,
                                           l.proposals, l.stats),
                                       ast, receipt))

\* a variant of gas_limit_of that takes an absent limit for an empty budget
gas_limit_of_absent_empty(ast) == IF IsSome(ast.gas_limit) THEN Unwrap(ast.gas_limit) ELSE 0

\* apply_state.gas_limit.unwrap_or(Gas::max_value())
gas_limit_of(ast) == IF IsSome(ast.gas_limit) THEN Unwrap(ast.gas_limit) ELSE U64_MAX

\* a variant of process_or_delay that still executes at the limit
process_or_delay_at_limit(l, st, committed, ast, receipt) ==
    IF l.total_gas_burnt <= gas_limit_of(ast)
    THEN run_process_receipt(l, st, committed, ast, receipt)
    ELSE [err |-> delay_receipt(st, l.indices, receipt).err,
          su |-> delay_receipt(st, l.indices, receipt).st, cm |-> committed,
          loc |-> [l EXCEPT !.indices = delay_receipt(st, l.indices, receipt).indices],
          outcome |-> None, delayed |-> TRUE]

\* lines 1010-1016 and 1052-1056: process the receipt or delay it;
\* [err, su, cm, loc, outcome, delayed]
process_or_delay(l, st, committed, ast, receipt) ==
    IF l.total_gas_burnt < gas_limit_of(ast)
    THEN run_process_receipt(l, st, committed, ast, receipt)
    ELSE LET d == delay_receipt(st, l.indices, receipt)
         IN [err |-> d.err, su |-> d.st, cm |-> committed,
             loc |-> [l EXCEPT !.indices = d.indices],
             outcome |-> None, delayed |-> TRUE]

----------------------------------------------------------------------------
(* What the chain can deliver: the receipts, transactions and validator
   updates of the tests, scaled *)

\* generate_receipts(small_transfer, n)[i]
Rcpt(i) == ActionReceipt("bob", "alice", <<"r", i>>, "bob", GAS_PRICE,
                         <<>>, <<>>, <<Transfer(10 + i)>>)
\* the receipt of test_apply_invalid_incoming_receipts
RInvalid == ActionReceipt("Invalid", "alice", <<"i", 0>>, "bob", GAS_PRICE,
                          <<>>, <<>>, <<Transfer(10)>>)
\* a deposit near the integer limit
RBig == ActionReceipt("bob", "alice", <<"b", 0>>, "bob", GAS_PRICE,
                      <<>>, <<>>, <<Transfer(U128_MAX - 10)>>)
\* fails at action 0 (no such account); signer is the predecessor
RFailMerged == ActionReceipt("bob", "carol", <<"f", 0>>, "bob", GAS_PRICE,
                             <<>>, <<>>, <<Transfer(4), Transfer(1)>>)
\* fails at action 1 (the contract fails); signer is not the predecessor
RFailSplit == ActionReceipt("bob", "alice", <<"f", 1>>, "alice", GAS_PRICE,
                            <<>>, <<>>, <<Transfer(4), FunctionCall("fail", 3, 0)>>)
RFn == ActionReceipt("bob", "alice", <<"c", 0>>, "bob", GAS_PRICE,
                     <<>>, <<>>, <<FunctionCall("set", 3, 0)>>)
RCreate == ActionReceipt("bob", "carol", <<"c", 1>>, "bob", GAS_PRICE,
                         <<>>, <<>>, <<CreateAccount, Transfer(9)>>)
\* a call that creates a promise and leaves gas unused
RFwd == ActionReceipt("bob", "alice", <<"p", 0>>, "bob", GAS_PRICE,
                      <<>>, <<>>, <<FunctionCall("fwd", 6, 0)>>)
\* a call that creates a promise, followed by a call that fails
RFwdFail == ActionReceipt("bob", "alice", <<"p", 1>>, "alice", GAS_PRICE,
                          <<>>, <<>>, <<FunctionCall("fwd", 6, 1), FunctionCall("fail", 3, 0)>>)
\* Receipt::new_refund(&alice_account(), small_refund) of the rewards test
RRefund == [new_refund("alice", 5) EXCEPT !.receipt_id = <<"s", 0>>]
RRefundFail == [new_refund("carol", 5) EXCEPT !.receipt_id = <<"s", 1>>]
\* a join of two inputs, and the data receipts that feed it
RJoin == ActionReceipt("bob", "alice", <<"j", 0>>, "bob", GAS_PRICE,
                       <<"d1", "d2">>, <<>>, <<Transfer(6)>>)
RData1 == DataReceipt("bob", "alice", <<"d", 1>>, "d1", Some("v"))
RData2 == DataReceipt("bob", "alice", <<"d", 2>>, "d2", None)

\* SignedTransaction::send_money(.., alice, alice, .., small_transfer, ..)
Tx(n) == SignedTransaction(<<"tx", n>>, "alice", "alice", <<Transfer(1)>>, TRUE)
TxOut == SignedTransaction(<<"tx", 8>>, "alice", "bob", <<Transfer(2)>>, TRUE)
TxBad == SignedTransaction(<<"tx", 9>>, "alice", "alice", <<Transfer(1)>>, FALSE)
\* a transaction whose send fees are more than half of the gas width
TxHeavy(n) == SignedTransaction(<<"tx", 20 + n>>, "bob", "alice",
                                <<FunctionCall("bulk", 2, 0)>>, TRUE)

\* the update of test_apply_check_balance_validation_rewards
VauReward == ValidatorAccountsUpdate([a \in {"alice"} |-> 5], [a \in {"alice"} |-> 10],
                                     EmptyMap, None, EmptyMap)
VauSlash == ValidatorAccountsUpdate(EmptyMap, EmptyMap, EmptyMap, None,
                                    [a \in {"alice"} |-> Some(2)])
VauTreasury == ValidatorAccountsUpdate(EmptyMap, [a \in {"bob"} |-> 3], EmptyMap,
                                       Some("bob"), EmptyMap)
\* a reward for an account that is neither a staker nor the treasury
VauStray == ValidatorAccountsUpdate(EmptyMap, [a \in {"bob"} |-> 3], EmptyMap,
                                    None, EmptyMap)

\* two stakers and two slashed accounts: the maps have more than one order
VauOrder == ValidatorAccountsUpdate([a \in {"alice", "bob"} |-> IF a = "alice" THEN 5 ELSE 0],
                                    [a \in {"alice"} |-> 10], EmptyMap, None,
                                    [a \in {"alice", "bob"} |->
                                        IF a = "alice" THEN Some(2) ELSE None])
\* two stakers, one of them an account that does not exist
VauOrderMissing == ValidatorAccountsUpdate(
                       [a \in {"alice", "carol"} |-> IF a = "alice" THEN 5 ELSE 1],
                       [a \in {"alice"} |-> 10], EmptyMap, None, EmptyMap)

Pool(receipts, txs, vaus) == [receipts |-> receipts, txs |-> txs, vaus |-> vaus]

PoolChunks == Pool({Rcpt(0), Rcpt(1), Rcpt(2)}, {Tx(0), Tx(1)}, {})
PoolJoin == Pool({RJoin, RData1, RData2, Rcpt(0)}, {Tx(0)}, {})
PoolRefunds == Pool({RFailMerged, RFailSplit, RFn, RCreate}, {TxOut}, {})
PoolErrors == Pool({Rcpt(0), RInvalid, RBig}, {Tx(0), TxBad}, {VauStray})
PoolValidators == Pool({RRefund, RRefundFail}, {Tx(0)}, {VauReward, VauSlash, VauTreasury})
PoolPromises == Pool({RFwd, RFwdFail}, {}, {})
PoolOrders == Pool({Rcpt(0)}, {}, {VauOrder, VauOrderMissing})
PoolHeavy == Pool({Rcpt(0)}, {TxHeavy(0), TxHeavy(1)}, {})

Pools == {PoolChunks, PoolJoin, PoolRefunds, PoolErrors, PoolValidators, PoolPromises,
          PoolOrders}

\* no limit; nothing fits; one receipt fits
GasLimits == {None, Some(0), Some(2)}

\* setup_runtime: alice with a liquid and a locked balance (and bob, who sends)
Genesis ==
    [EmptyState EXCEPT
        !.accounts = [a \in {"alice", "bob"} |->
                         IF a = "alice" THEN Account(20, 5, 0) ELSE Account(20, 0, 0)]]

\* a signer that can pay the fees of the heavy transactions
GenesisRich ==
    [Genesis EXCEPT !.accounts["bob"] = Account(150, 0, 0)]

Perms(S) == {q \in DistinctSeqs(S, Cardinality(S)) : Len(q) = Cardinality(S)}

----------------------------------------------------------------------------
(* The loops of apply, one iteration each *)

\* a variant of pop_delayed that takes the newest receipt of the queue
pop_delayed_newest(st, indices) ==
    LET last == indices.next_available_index - 1
        got == MapGet(st.delayed, last)
        out(e) == [err |-> e, st |-> st, indices |-> indices, receipt |-> None]
    IN IF ~IsSome(got)
       THEN out(ErrStorage("Delayed receipt should be in the state", last))
       ELSE IF validate_receipt(Unwrap(got)) # ""
       THEN out([ErrStorage("Delayed receipt in the state is invalid", last)
                    EXCEPT !.cause = validate_receipt(Unwrap(got))])
       ELSE [err |-> NoError,
             st |-> [st EXCEPT !.delayed = MapRemove(@, last)],
             indices |-> [indices EXCEPT !.next_available_index = @ - 1],
             receipt |-> got]

\* a variant of pop_delayed that trusts what the queue holds
pop_delayed_unvalidated(st, indices) ==
    LET first == indices.first_index
        got == MapGet(st.delayed, first)
    IN [err |-> NoError,
        st |-> [st EXCEPT !.delayed = MapRemove(@, first)],
        indices |-> [indices EXCEPT !.first_index = @ + 1],
        receipt |-> IF IsSome(got) THEN got ELSE Some(new_refund(system_account, 0))]

\* lines 1020-1041: the receipt at first_index is read, validated, removed
\* and the index advanced; [err, st, indices, receipt]
\* a variant of pop_delayed that leaves the entry it took in the state
pop_delayed_kept(st, indices) ==
    LET first == indices.first_index
        got == MapGet(st.delayed, first)
    IN IF ~IsSome(got) \/ validate_receipt(Unwrap(got)) # ""
       THEN [err |-> ErrStorage("Delayed receipt should be in the state", first),
             st |-> st, indices |-> indices, receipt |-> None]
       ELSE [err |-> NoError, st |-> st,
             indices |-> [indices EXCEPT !.first_index = @ + 1],
             receipt |-> got]

pop_delayed(st, indices) ==
    LET first == indices.first_index
        got == MapGet(st.delayed, first)
        out(e) == [err |-> e, st |-> st, indices |-> indices, receipt |-> None]
    IN IF ~IsSome(got)
       THEN out(ErrStorage("Delayed receipt should be in the state", first))
       ELSE IF validate_receipt(Unwrap(got)) # ""
       THEN out([ErrStorage("Delayed receipt in the state is invalid", first)
                    EXCEPT !.cause = validate_receipt(Unwrap(got))])
       ELSE [err |-> NoError,
             st |-> [st EXCEPT !.delayed = MapRemove(@, first)],
             indices |-> [indices EXCEPT !.first_index = @ + 1],
             receipt |-> got]

\* a variant of incoming_receipt that validates only what it executes
incoming_receipt_unchecked_delay(l, st, committed, ast, receipt) ==
    IF l.total_gas_burnt < gas_limit_of(ast) /\ validate_receipt(receipt) # ""
    THEN [err |-> ErrReceiptValidation(validate_receipt(receipt)), su |-> st,
          cm |-> committed, loc |-> l, outcome |-> None, delayed |-> FALSE]
    ELSE process_or_delay(l, st, committed, ast, receipt)

\* lines 1047-1056: an incoming receipt is validated, then processed or delayed
incoming_receipt(l, st, committed, ast, receipt) ==
    IF validate_receipt(receipt) # ""
    THEN [err |-> ErrReceiptValidation(validate_receipt(receipt)), su |-> st,
          cm |-> committed, loc |-> l, outcome |-> None, delayed |-> FALSE]
    ELSE process_or_delay(l, st, committed, ast, receipt)

----------------------------------------------------------------------------
(* The state machine *)

NoResult ==
    [status |-> "None", err |-> NoError, outcomes |-> <<>>, outgoing_receipts |-> <<>>,
     validator_proposals |-> <<>>, stats |-> ZeroStats]

NoInput ==
    [txs |-> <<>>, incoming |-> <<>>, vau |-> None, stake_order |-> <<>>,
     slash_order |-> <<>>,
     ast |-> [block_index |-> 0, epoch_length |-> EPOCH_LENGTH,
              gas_price |-> GAS_PRICE, gas_limit |-> None]]

\* what an apply did with one transaction or receipt: the phase of the pipeline,
\* the id of the item, whether it was converted, executed, postponed or delayed,
\* total_gas_burnt when it was considered, its outcome, the receipt that was
\* executed (the item, or the postponed receipt it completed) and the receipts
\* it created
Event(phase, id, what, gas, outcome, executed, new) ==
    [phase |-> phase, id |-> id, what |-> what, gas |-> gas, outcome |-> outcome,
     executed |-> executed, new |-> new]

InitHist ==
    [before |-> Genesis,   \* the state the running (or last) apply started from
     trace |-> <<>>,       \* the events of the running (or last successful) apply
     log |-> <<>>,         \* the events of all applies that returned Ok
     lost |-> 0]           \* how many items the last apply handled before it failed

InitWith(stores, pools) ==
    /\ store \in stores
    /\ height = 0
    /\ pool \in pools
    /\ pc = "idle"
    /\ inp = NoInput
    /\ su = store
    /\ cm = store
    /\ loc = InitLoc
    /\ res = NoResult
    /\ hist = [InitHist EXCEPT !.before = store]

Init == InitWith({Genesis}, Pools) \/ InitWith({GenesisRich}, {PoolHeavy})

\* a variant of Fail that publishes what the failed apply had committed
FailKeepingCommitted(e) ==
    /\ pc' = "idle"
    /\ res' = [NoResult EXCEPT !.status = "Err", !.err = e]
    /\ store' = cm
    /\ su' = cm
    /\ cm' = cm
    /\ loc' = InitLoc
    /\ hist' = [hist EXCEPT !.trace = <<>>, !.lost = Len(hist.trace)]
    /\ UNCHANGED <<height, pool, inp>>

\* apply returns Err: no ApplyResult, no trie changes
Fail(e) ==
    /\ pc' = "idle"
    /\ res' = [NoResult EXCEPT !.status = "Err", !.err = e]
    /\ su' = store
    /\ cm' = store
    /\ loc' = InitLoc
    /\ hist' = [hist EXCEPT !.trace = <<>>, !.lost = Len(hist.trace)]
    /\ UNCHANGED <<store, height, pool, inp>>

Goto(p, s, c, l, h) ==
    /\ pc' = p
    /\ su' = s
    /\ cm' = c
    /\ loc' = l
    /\ hist' = h
    /\ UNCHANGED <<store, height, pool, inp, res>>

Traced(ev) == [hist EXCEPT !.trace = Append(@, ev)]

\* the event of a receipt handed to process_receipt or delay_receipt, r being
\* what came back
ReceiptEvent(phase, receipt, r) ==
    Event(phase, receipt.receipt_id,
          IF r.delayed THEN "delayed"
          ELSE IF IsSome(r.outcome) THEN "executed" ELSE "postponed",
          loc.total_gas_burnt, r.outcome,
          IF ~IsSome(r.outcome) THEN None
          ELSE IF Unwrap(r.outcome).id = receipt.receipt_id THEN Some(receipt)
          ELSE MapGet(su.postponed, <<receipt.receiver_id, Unwrap(r.outcome).id>>),
          SubSeq(r.loc.outgoing, Len(loc.outgoing) + 1, Len(r.loc.outgoing)))

\* lines 941-944: a call of apply on the current state root
BeginApply ==
    /\ pc = "idle"
    /\ height < MaxHeight
    /\ \E txs \in DistinctSeqs(pool.txs, MaxTxs),
          incoming \in DistinctSeqs(pool.receipts, MaxIncoming),
          gas_limit \in GasLimits,
          vau \in {None} \cup {Some(v) : v \in pool.vaus} :
         \E stake_order \in Perms(IF IsSome(vau) THEN DOMAIN Unwrap(vau).stake_info ELSE {}),
            slash_order \in Perms(IF IsSome(vau) THEN DOMAIN Unwrap(vau).slashing_info
                                  ELSE {}) :
            /\ inp' = [txs |-> txs, incoming |-> incoming, vau |-> vau,
                       stake_order |-> stake_order, slash_order |-> slash_order,
                       ast |-> [block_index |-> height, epoch_length |-> EPOCH_LENGTH,
                                gas_price |-> GAS_PRICE, gas_limit |-> gas_limit]]
            /\ pool' = [pool EXCEPT !.receipts = @ \ Range(incoming),
                                    !.txs = @ \ Range(txs),
                                    !.vaus = @ \ Range(vau)]
    /\ height' = height + 1
    /\ su' = store
    /\ cm' = store
    /\ loc' = InitLoc
    /\ res' = NoResult
    /\ pc' = "validators"
    /\ hist' = [hist EXCEPT !.before = store, !.trace = <<>>, !.lost = 0]
    /\ UNCHANGED store

\* lines 946-952
UpdateValidators ==
    /\ pc = "validators"
    /\ IF IsSome(inp.vau)
       THEN \E u \in {update_validator_accounts(su, Unwrap(inp.vau), loc.stats,
                                                inp.stake_order, inp.slash_order)} :
               IF IsError(u.err) THEN Fail(u.err)
               ELSE Goto("txs", u.st, u.st, [loc EXCEPT !.stats = u.stats], hist)
       ELSE Goto("txs", su, cm, loc, hist)

\* a variant of TxStep that skips a transaction once the gas limit is reached
TxStepBudgeted ==
    /\ pc = "txs"
    /\ IF loc.i < Len(inp.txs) /\ loc.total_gas_burnt >= gas_limit_of(inp.ast)
       THEN Goto("txs", su, cm, [loc EXCEPT !.i = @ + 1], hist)
       ELSE IF loc.i < Len(inp.txs)
       THEN \E p \in {process_transaction(su, cm, inp.ast, inp.txs[loc.i + 1],
                                          loc.stats)} :
            LET tx == inp.txs[loc.i + 1]
                is_local == p.receipt.receiver_id = tx.signer_id
            \* line 973 adds without a check: on overflow a build with overflow
            \* checks panics, a build without them wraps
            IN IF IsError(p.err) THEN Fail(p.err)
               ELSE \/ /\ loc.total_gas_burnt + p.outcome.gas_burnt > U64_MAX
                       /\ Fail(ErrPanic("attempt to add with overflow"))
                    \/ Goto("txs", p.st, p.cm,
                         [loc EXCEPT
                             !.stats = p.stats,
                             !.local_receipts =
                                 IF is_local THEN Append(@, p.receipt) ELSE @,
                             !.outgoing = IF is_local THEN @ ELSE Append(@, p.receipt),
                             !.total_gas_burnt =
                                 (@ + p.outcome.gas_burnt) % (U64_MAX + 1),
                             !.outcomes = Append(@, p.outcome),
                             !.i = @ + 1],
                         Traced(Event("tx", tx.hash, "converted", loc.total_gas_burnt,
                                      Some(p.outcome), None, <<p.receipt>>)))
       ELSE Goto("local", su, cm,
                 [loc EXCEPT !.indices = get_delayed_indices(su),
                             !.initial_indices = get_delayed_indices(su),
                             !.i = 0],
                 hist)

\* lines 960-980: one transaction, or (after the last) the read of the indices
TxStep ==
    /\ pc = "txs"
    /\ IF loc.i < Len(inp.txs)
       THEN \E p \in {process_transaction(su, cm, inp.ast, inp.txs[loc.i + 1],
                                          loc.stats)} :
            LET tx == inp.txs[loc.i + 1]
                is_local == p.receipt.receiver_id = tx.signer_id
            \* line 973 adds without a check: on overflow a build with overflow
            \* checks panics, a build without them wraps
            IN IF IsError(p.err) THEN Fail(p.err)
               ELSE \/ /\ loc.total_gas_burnt + p.outcome.gas_burnt > U64_MAX
                       /\ Fail(ErrPanic("attempt to add with overflow"))
                    \/ Goto("txs", p.st, p.cm,
                         [loc EXCEPT
                             !.stats = p.stats,
                             !.local_receipts =
                                 IF is_local THEN Append(@, p.receipt) ELSE @,
                             !.outgoing = IF is_local THEN @ ELSE Append(@, p.receipt),
                             !.total_gas_burnt =
                                 (@ + p.outcome.gas_burnt) % (U64_MAX + 1),
                             !.outcomes = Append(@, p.outcome),
                             !.i = @ + 1],
                         Traced(Event("tx", tx.hash, "converted", loc.total_gas_burnt,
                                      Some(p.outcome), None, <<p.receipt>>)))
       ELSE Goto("local", su, cm,
                 [loc EXCEPT !.indices = get_delayed_indices(su),
                             !.initial_indices = get_delayed_indices(su),
                             !.i = 0],
                 hist)

\* lines 1009-1017
LocalStep ==
    /\ pc = "local"
    /\ IF loc.i < Len(loc.local_receipts)
       THEN \E r \in {process_or_delay(loc, su, cm, inp.ast,
                                       loc.local_receipts[loc.i + 1])} :
               IF IsError(r.err) THEN Fail(r.err)
               ELSE Goto("local", r.su, r.cm, [r.loc EXCEPT !.i = @ + 1],
                         Traced(ReceiptEvent("local", loc.local_receipts[loc.i + 1], r)))
       ELSE Goto("delayed", su, cm, [loc EXCEPT !.i = 0], hist)

\* a variant of DelayedStep that leaves the loop after the first receipt
DelayedStepOnce ==
    /\ pc = "delayed"
    /\ IF loc.indices.first_index < loc.indices.next_available_index
          /\ loc.indices.first_index = loc.initial_indices.first_index
          /\ loc.total_gas_burnt < gas_limit_of(inp.ast)
       THEN \E d \in {pop_delayed(su, loc.indices)} :
               IF IsError(d.err) THEN Fail(d.err)
               ELSE \E r \in {run_process_receipt([loc EXCEPT !.indices = d.indices],
                                                  d.st, cm, inp.ast, Unwrap(d.receipt))} :
                       IF IsError(r.err) THEN Fail(r.err)
                       ELSE Goto("delayed", r.su, r.cm, r.loc,
                                 Traced(ReceiptEvent("delayed", Unwrap(d.receipt), r)))
       ELSE Goto("incoming", su, cm, loc, hist)

\* lines 1020-1044
DelayedStep ==
    /\ pc = "delayed"
    /\ IF loc.indices.first_index < loc.indices.next_available_index
          /\ loc.total_gas_burnt < gas_limit_of(inp.ast)
       THEN \E d \in {pop_delayed(su, loc.indices)} :
               IF IsError(d.err) THEN Fail(d.err)
               ELSE \E r \in {run_process_receipt([loc EXCEPT !.indices = d.indices],
                                                  d.st, cm, inp.ast, Unwrap(d.receipt))} :
                       IF IsError(r.err) THEN Fail(r.err)
                       ELSE Goto("delayed", r.su, r.cm, r.loc,
                                 Traced(ReceiptEvent("delayed", Unwrap(d.receipt), r)))
       ELSE Goto("incoming", su, cm, loc, hist)

\* lines 1047-1057
IncomingStep ==
    /\ pc = "incoming"
    /\ IF loc.i < Len(inp.incoming)
       THEN \E r \in {incoming_receipt(loc, su, cm, inp.ast, inp.incoming[loc.i + 1])} :
               IF IsError(r.err) THEN Fail(r.err)
               ELSE Goto("incoming", r.su, r.cm, [r.loc EXCEPT !.i = @ + 1],
                         Traced(ReceiptEvent("incoming", inp.incoming[loc.i + 1], r)))
       ELSE Goto("finish", su, cm, loc, hist)

\* a variant of with_indices that writes the indices back every time
with_indices_always(st, indices, initial_indices) ==
    [st EXCEPT !.indices = Some(indices)]

\* a variant of with_indices that writes the indices only when the queue grew
with_indices_on_growth(st, indices, initial_indices) ==
    IF indices.next_available_index # initial_indices.next_available_index
    THEN [st EXCEPT !.indices = Some(indices)] ELSE st

\* lines 1059-1061: the state with the indices written if they changed
with_indices(st, indices, initial_indices) ==
    IF indices # initial_indices THEN [st EXCEPT !.indices = Some(indices)] ELSE st

\* a variant of Finish that skips the audit
FinishUnaudited ==
    /\ pc = "finish"
    /\ \E final \in {with_indices(su, loc.indices, loc.initial_indices)} :
          /\ store' = final
          /\ su' = final
          /\ cm' = final
          /\ res' = [status |-> "Ok", err |-> NoError, outcomes |-> loc.outcomes,
                     outgoing_receipts |-> loc.outgoing,
                     validator_proposals |-> loc.proposals, stats |-> loc.stats]
          /\ pc' = "idle"
          /\ loc' = InitLoc
          /\ hist' = [hist EXCEPT !.log = @ \o hist.trace]
          /\ UNCHANGED <<height, pool, inp>>

\* lines 1059-1089: the audit, the last commit and the finalization
Finish ==
    /\ pc = "finish"
    /\ \E final \in {with_indices(su, loc.indices, loc.initial_indices)} :
       \E e \in {check_balance(store, final, inp.vau, inp.incoming, loc.outgoing,
                               loc.stats)} :
          IF IsError(e) THEN Fail(e)
          ELSE /\ store' = final
               /\ su' = final
               /\ cm' = final
               /\ res' = [status |-> "Ok", err |-> NoError, outcomes |-> loc.outcomes,
                          outgoing_receipts |-> loc.outgoing,
                          validator_proposals |-> loc.proposals, stats |-> loc.stats]
               /\ pc' = "idle"
               /\ loc' = InitLoc
               /\ hist' = [hist EXCEPT !.log = @ \o hist.trace]
               /\ UNCHANGED <<height, pool, inp>>

Next ==
    \/ BeginApply
    \/ UpdateValidators
    \/ TxStep
    \/ LocalStep
    \/ DelayedStep
    \/ IncomingStep
    \/ Finish

Spec == Init /\ [][Next]_vars

----------------------------------------------------------------------------
(* Observations shared by the properties *)

\* the events of every apply that returned Ok, and of the running one
AllEvents == IF pc = "idle" THEN hist.log ELSE hist.log \o hist.trace

WasDelayed(ev) == ev.what = "delayed"
WasDequeued(ev) == ev.phase = "delayed"
HasOutcome(ev) == IsSome(ev.outcome)
EventIds(evs) == [i \in 1..Len(evs) |-> evs[i].id]
OutcomeIds(outcomes) == [i \in 1..Len(outcomes) |-> outcomes[i].id]
GasOf(outcomes) == [i \in 1..Len(outcomes) |-> outcomes[i].gas_burnt]
IsPrefix(s, t) == Len(s) <= Len(t) /\ SubSeq(t, 1, Len(s)) = s

\* the ids in the delayed queue of st, in index order
QueueIds(st) ==
    LET ix == get_delayed_indices(st)
    IN [k \in 1..(ix.next_available_index - ix.first_index) |->
           IF MapHas(st.delayed, ix.first_index + k - 1)
           THEN st.delayed[ix.first_index + k - 1].receipt_id ELSE <<"missing">>]

\* the state and the outcomes of the running apply, or of the last one
CurrentState == IF pc = "idle" THEN store ELSE su
CurrentOutcomes == IF pc = "idle" THEN res.outcomes ELSE loc.outcomes

----------------------------------------------------------------------------
(* C1: balance conservation and the audit *)

BalanceIn(initial_state, vau_opt, incoming_receipts) ==
    receipts_cost(incoming_receipts)
    + accounts_balance(initial_state)
    + stored_receipts_balance(initial_state.postponed)
    + stored_receipts_balance(initial_state.delayed)
    + minted_rewards(vau_opt)

\* the right-hand side without the validator reward
BalanceOut(final_state, outgoing_receipts, stats) ==
    receipts_cost(outgoing_receipts)
    + accounts_balance(final_state)
    + stored_receipts_balance(final_state.postponed)
    + stored_receipts_balance(final_state.delayed)
    + stats.total_balance_burnt + stats.total_balance_slashed + stats.total_rent_paid

----------------------------------------------------------------------------
(* C2: an apply that fails publishes nothing *)

\* C2: the persisted state changes only when apply returns Ok: while an apply
\* runs, and after it returned an error, the persisted state (accounts,
\* postponed store, delayed queue, indices) is what it was before the call,
\* and an error comes with no outcomes, receipts or stats.
C2_FailsAtomically ==
    /\ pc # "idle" => store = hist.before
    /\ res.status = "Err" =>
          /\ store = hist.before
          /\ res = [NoResult EXCEPT !.status = "Err", !.err = res.err]
          /\ IsError(res.err)

\* an apply failed after it had processed (and committed) earlier items
C2_Witness ==
    /\ res.status = "Err"
    /\ hist.lost > 1
    /\ res.err.kind \in {"ReceiptValidationError", "BalanceMismatch",
                         "UnexpectedIntegerOverflow", "InvalidTxError"}

----------------------------------------------------------------------------
(* C3: the delayed queue is FIFO across applies *)

\* C3: the receipts taken from the delayed queue, over all applies, are a
\* prefix of the receipts put into it, in the order they were put, and the
\* queue holds the rest in that order.
C3_DelayedFifo ==
    LET enq == EventIds(SelectSeq(AllEvents, WasDelayed))
        deq == EventIds(SelectSeq(AllEvents, WasDequeued))
    IN /\ IsPrefix(deq, enq)
       /\ pc = "idle" => QueueIds(store) = SubSeq(enq, Len(deq) + 1, Len(enq))

\* two receipts delayed by an earlier apply were taken by a later one
C3_Witness ==
    /\ pc = "idle"
    /\ Len(SelectSeq(hist.log, WasDequeued)) >= 2
    /\ \E i \in 1..Len(hist.log) : hist.log[i].phase = "local" /\ WasDelayed(hist.log[i])

----------------------------------------------------------------------------
(* C4: a receipt with input data executes once, with its last input *)

\* the events that executed the receipt with this id
ExecutionsOf(evs, receipt_id) ==
    {i \in 1..Len(evs) : HasOutcome(evs[i]) /\ Unwrap(evs[i].outcome).id = receipt_id}

\* the first event that handed the receipt with this id to process_receipt
\* (0 if none did)
ArrivalOf(evs, receipt_id) ==
    LET at == {i \in 1..Len(evs) : evs[i].id = receipt_id /\ ~WasDelayed(evs[i])}
    IN IF at = {} THEN 0 ELSE CHOOSE i \in at : \A j \in at : i <= j

\* the data receipts of the pool that feed the action receipt
FeedersOf(receipt) ==
    {d \in {RData1, RData2} : d.receiver_id = receipt.receiver_id
                               /\ d.data_id \in Range(receipt.input_data_ids)}

\* C4: the receipt with two inputs executes at most once; it has executed
\* exactly when it and both of its data receipts have been processed, and it
\* executed in the event that processed the last of the three, whatever the
\* order of arrival and however the arrivals are spread over applies.
C4_JoinAtomicity ==
    LET evs == AllEvents
        parts == {RJoin.receipt_id} \cup {d.receipt_id : d \in FeedersOf(RJoin)}
        arrived == {ArrivalOf(evs, id) : id \in parts}
        runs == ExecutionsOf(evs, RJoin.receipt_id)
    IN /\ Cardinality(parts) = 1 + Len(RJoin.input_data_ids)
       /\ Cardinality(runs) <= 1
       /\ (runs # {}) <=> (0 \notin arrived)
       /\ \A i \in runs : \A at \in arrived : at <= i /\ i \in arrived

\* the receipt executed in an apply later than the one that postponed it,
\* when its last input arrived
C4_Witness ==
    /\ pc = "idle"
    /\ \E i \in ExecutionsOf(hist.log, RJoin.receipt_id) :
          /\ hist.log[i].id = RData1.receipt_id
          /\ ArrivalOf(hist.log, RJoin.receipt_id) < ArrivalOf(hist.log, RData2.receipt_id)
          /\ ArrivalOf(hist.log, RData2.receipt_id) < i
          /\ i > Len(hist.log) - Len(hist.trace)
          /\ ArrivalOf(hist.log, RJoin.receipt_id) <= Len(hist.log) - Len(hist.trace)

----------------------------------------------------------------------------
(* C5: the gas limit *)

RECURSIVE SumGas(_, _)
\* the gas burnt by the first n outcomes
SumGas(outcomes, n) ==
    IF n = 0 THEN 0 ELSE outcomes[n].gas_burnt + SumGas(outcomes, n - 1)

\* C5 as stated: in a successful apply the outcome that first takes the sum
\* of gas_burnt above gas_limit is the last outcome.
C5_OneBreachingOutcome ==
    res.status = "Ok" =>
        \A i \in 1..Len(res.outcomes) :
            SumGas(res.outcomes, i) > gas_limit_of(inp.ast) => i = Len(res.outcomes)

\* the gas burnt by the outcome of an event, if it has one
BurntBy(ev) == IF HasOutcome(ev) THEN Unwrap(ev.outcome).gas_burnt ELSE 0

\* C5 (amended): transactions are all processed whatever gas they burn; apply
\* keeps a running total of the gas burnt by the outcomes so far (the sum of
\* their gas_burnt, unless the unchecked add of the transaction loop
\* overflows), and a local, delayed or incoming receipt is executed only if
\* that total is below gas_limit when the receipt is considered, so at most one
\* receipt outcome takes the total to or above the limit; every local or
\* incoming receipt considered from then on is delayed and nothing more is
\* taken from the delayed queue.
C5_GasBudget ==
    LET t == hist.trace
        limit == gas_limit_of(inp.ast)
        total(i) == t[i].gas + BurntBy(t[i])
    IN \A i \in 1..Len(t) :
          /\ i = 1 => t[i].gas = 0
          /\ (i > 1 /\ (t[i - 1].phase # "tx" \/ total(i - 1) <= U64_MAX)) =>
                t[i].gas = total(i - 1)
          /\ t[i].phase \in {"local", "incoming"} =>
                (WasDelayed(t[i]) <=> t[i].gas >= limit)
          /\ t[i].phase = "delayed" => t[i].gas < limit
          /\ (t[i].phase # "tx" /\ HasOutcome(t[i])) => t[i].gas < limit

\* two transactions burnt gas above a limit of zero, and the receipts of the
\* apply were delayed
C5_Witness ==
    /\ res.status = "Ok"
    /\ inp.ast.gas_limit = Some(0)
    /\ Len(res.outcomes) = 2
    /\ SumGas(res.outcomes, 1) > 0
    /\ Len(SelectSeq(hist.trace, WasDelayed)) >= 2

----------------------------------------------------------------------------
(* C6: the order of the pipeline *)

PhaseRank(phase) ==
    CASE phase = "tx" -> 0
      [] phase = "local" -> 1
      [] phase = "delayed" -> 2
      [] phase = "incoming" -> 3

InPhase(evs, phase) == SelectSeq(evs, LAMBDA ev : ev.phase = phase)
TxHashes(txs) == [i \in 1..Len(txs) |-> txs[i].hash]
ReceiptIds(receipts) == [i \in 1..Len(receipts) |-> receipts[i].receipt_id]
IsLocalTx(tx) == tx.receiver_id = tx.signer_id
LocalReceiptIds(txs) ==
    LET l == SelectSeq(txs, IsLocalTx)
    IN [i \in 1..Len(l) |-> create_nonce_with_nonce(l[i].hash, 0)]

\* C6: an apply handles transactions in input order, then local receipts in
\* generation order, then delayed receipts in index order, then incoming
\* receipts in input order; the outcomes are in the order of execution, and
\* the receipts that were delayed are at the tail of the queue in the order
\* they were considered.
C6_PipelineOrder ==
    LET t == hist.trace
        old == get_delayed_indices(hist.before)
        tail == Len(SelectSeq(t, WasDelayed))
    IN /\ \A i, j \in 1..Len(t) : i < j => PhaseRank(t[i].phase) <= PhaseRank(t[j].phase)
       /\ IsPrefix(EventIds(InPhase(t, "tx")), TxHashes(inp.txs))
       /\ IsPrefix(EventIds(InPhase(t, "local")), LocalReceiptIds(inp.txs))
       /\ IsPrefix(EventIds(InPhase(t, "delayed")), QueueIds(hist.before))
       /\ IsPrefix(EventIds(InPhase(t, "incoming")), ReceiptIds(inp.incoming))
       /\ pc \in {"local", "delayed", "incoming", "finish"} =>
             EventIds(InPhase(t, "tx")) = TxHashes(inp.txs)
       /\ pc \in {"delayed", "incoming", "finish"} =>
             EventIds(InPhase(t, "local")) = LocalReceiptIds(inp.txs)
       /\ res.status = "Ok" =>
             EventIds(InPhase(t, "incoming")) = ReceiptIds(inp.incoming)
       /\ OutcomeIds(CurrentOutcomes)
          = [i \in 1..Len(SelectSeq(t, HasOutcome)) |->
                Unwrap(SelectSeq(t, HasOutcome)[i].outcome).id]
       /\ EventIds(SelectSeq(t, WasDelayed))
          = [k \in 1..tail |->
                IF MapHas(CurrentState.delayed, old.next_available_index + k - 1)
                THEN CurrentState.delayed[old.next_available_index + k - 1].receipt_id
                ELSE <<"missing">>]

\* a successful apply with work in all four phases
C6_Witness ==
    /\ res.status = "Ok"
    /\ {hist.trace[i].phase : i \in 1..Len(hist.trace)}
       = {"tx", "local", "delayed", "incoming"}
    /\ Len(res.outcomes) >= 4

----------------------------------------------------------------------------
(* C7: incoming receipts are validated first *)

AllValid(receipts) == \A i \in 1..Len(receipts) : validate_receipt(receipts[i]) = ""

\* C7: when apply comes to an incoming receipt that is invalid it returns
\* ReceiptValidationError with the validation error, whether or not gas is
\* left, and publishes nothing; an apply with an invalid incoming receipt
\* never returns Ok, and no invalid receipt is in the delayed queue.
C7_IncomingValidated ==
    /\ [][(/\ pc = "incoming"
           /\ loc.i < Len(inp.incoming)
           /\ validate_receipt(inp.incoming[loc.i + 1]) # "")
          => /\ res'.status = "Err"
             /\ res'.err = ErrReceiptValidation(validate_receipt(inp.incoming[loc.i + 1]))
             /\ res'.outcomes = <<>>
             /\ pc' = "idle"
             /\ store' = store
             /\ su' = store]_vars
    /\ [](res.status = "Ok" => AllValid(inp.incoming))
    /\ [](\A k \in DOMAIN CurrentState.delayed :
              validate_receipt(CurrentState.delayed[k]) = "")

\* an apply without gas for any receipt delayed a valid incoming receipt and
\* then failed on an invalid one
C7_Witness ==
    /\ res.status = "Err"
    /\ res.err = ErrReceiptValidation("InvalidPredecessorId")
    /\ inp.ast.gas_limit = Some(0)
    /\ hist.lost > 0
    /\ Len(inp.incoming) = 2

----------------------------------------------------------------------------
(* C8: the delayed queue is validated while it is drained *)

\* a store whose delayed queue holds, behind a valid receipt, a receipt that
\* is invalid (test_apply_invalid_delayed_receipts), or no receipt at all
RQueued == ActionReceipt("bob", "alice", <<"q", 0>>, "bob", GAS_PRICE,
                         <<>>, <<>>, <<Transfer(3)>>)
StoreInvalidDelayed ==
    [Genesis EXCEPT !.delayed = MapSet(MapSet(EmptyMap, 0, RQueued), 1, RInvalid),
                    !.indices = Some([first_index |-> 0, next_available_index |-> 2])]
StoreMissingDelayed ==
    [Genesis EXCEPT !.delayed = MapSet(EmptyMap, 0, RQueued),
                    !.indices = Some([first_index |-> 0, next_available_index |-> 2])]

PoolDrain == Pool({Rcpt(0), Rcpt(1)}, {Tx(0)}, {})

InitPlanted == InitWith({StoreInvalidDelayed, StoreMissingDelayed}, {PoolDrain})

SpecPlanted == InitPlanted /\ [][Next]_vars

\* C8: when the drain comes to an index whose receipt is missing or invalid,
\* apply returns StorageInconsistentState naming that index (and, for an
\* invalid receipt, the validation error); the receipt is not executed and
\* the persisted queue and its indices are left as they were.
C8_DelayedValidated ==
    [][(/\ pc = "delayed"
        /\ loc.indices.first_index < loc.indices.next_available_index
        /\ loc.total_gas_burnt < gas_limit_of(inp.ast))
       => LET first == loc.indices.first_index
              got == MapGet(su.delayed, first)
              bad == IF ~IsSome(got) THEN "missing"
                     ELSE IF validate_receipt(Unwrap(got)) # "" THEN "invalid"
                     ELSE ""
          IN /\ bad = "missing" =>
                   res'.err = ErrStorage("Delayed receipt should be in the state", first)
             /\ bad = "invalid" =>
                   res'.err = [ErrStorage("Delayed receipt in the state is invalid", first)
                                  EXCEPT !.cause = validate_receipt(Unwrap(got))]
             /\ bad # "" =>
                   /\ res'.status = "Err"
                   /\ res'.outcomes = <<>>
                   /\ pc' = "idle"
                   /\ store' = store
                   /\ su' = store
                   /\ QueueIds(store') = QueueIds(hist.before)
             /\ bad = "" =>
                   \/ res'.status = "Err" /\ store' = store
                   \/ /\ pc' = "delayed"
                      /\ loc'.indices.first_index = first + 1
                      /\ ~MapHas(su'.delayed, first)
                      /\ Len(hist'.trace) = Len(hist.trace) + 1
                      /\ hist'.trace[Len(hist'.trace)].id = Unwrap(got).receipt_id
                      /\ ~WasDelayed(hist'.trace[Len(hist'.trace)])]_vars

\* the drain executed the valid receipt at index 0 and failed on the invalid
\* receipt at index 1
C8_Witness ==
    /\ res.status = "Err"
    /\ res.err = [ErrStorage("Delayed receipt in the state is invalid", 1)
                     EXCEPT !.cause = "InvalidPredecessorId"]
    /\ hist.lost > 0
    /\ store = StoreInvalidDelayed

----------------------------------------------------------------------------
(* C9: a rejected transaction aborts the apply *)

\* C9: when the verifier rejects a transaction, apply returns that error: no
\* outcome of that or of any transaction is returned, no receipt is
\* processed, and what earlier transactions of the list had committed is
\* not published.
C9_RejectedTxAborts ==
    [][(/\ pc = "txs"
        /\ loc.i < Len(inp.txs)
        /\ IsError(verify_and_charge_transaction(su, inp.ast, inp.txs[loc.i + 1]).err))
       => /\ res'.status = "Err"
          /\ res'.err = verify_and_charge_transaction(su, inp.ast, inp.txs[loc.i + 1]).err
          /\ res'.outcomes = <<>>
          /\ res'.outgoing_receipts = <<>>
          /\ pc' = "idle"
          /\ store' = store
          /\ su' = store
          /\ \A i \in 1..Len(hist.trace) : hist.trace[i].phase = "tx"]_vars

\* the second transaction of the list was rejected after the first had been
\* verified and committed
C9_Witness ==
    /\ res.status = "Err"
    /\ res.err = ErrInvalidTx("InvalidSignature")
    /\ hist.lost = 1
    /\ Len(inp.txs) = 2
    /\ inp.incoming # <<>>

----------------------------------------------------------------------------
(* C10: refunds *)

IsRefund(receipt) == receipt.predecessor_id = system_account
RefundsOf(receipts) ==
    LET r == SelectSeq(receipts, IsRefund)
    IN [i \in 1..Len(r) |-> [receiver_id |-> r[i].receiver_id,
                             deposit |-> total_deposit(r[i].actions),
                             actions |-> Len(r[i].actions),
                             kind |-> r[i].actions[1].kind]]
RefundTo(receiver_id, deposit) ==
    IF deposit > 0
    THEN <<[receiver_id |-> receiver_id, deposit |-> deposit, actions |-> 1,
            kind |-> "Transfer"]>>
    ELSE <<>>

\* the gas a receipt's contracts gave to the receipts they created
RECURSIVE PromisedGas(_)
PromisedGas(receipts) ==
    IF receipts = <<>> THEN 0
    ELSE (IF IsActionReceipt(Head(receipts)) /\ ~IsRefund(Head(receipts))
          THEN ReceiptExecFee + total_exec_fees(Head(receipts).actions)
               + total_prepaid_gas(Head(receipts).actions)
          ELSE 0)
         + PromisedGas(Tail(receipts))

\* the refunds the claim asks of an executed receipt, its outcome and the
\* receipts it created: gas_used is the gas burnt and the gas given to the
\* receipts created
ExpectedRefunds(receipt, outcome, new) ==
    LET failed == outcome.status.tag = "Failure"
        deposit_refund == IF failed THEN total_deposit(receipt.actions) ELSE 0
        gas_used == outcome.gas_burnt + PromisedGas(new)
        gas_refund == receipt.gas_price
                      * (total_prepaid_gas(receipt.actions)
                         + total_exec_fees(receipt.actions) + ReceiptExecFee
                         - (IF failed THEN outcome.gas_burnt ELSE gas_used))
    IN IF receipt.signer_id = receipt.predecessor_id
       THEN RefundTo(receipt.predecessor_id, deposit_refund + gas_refund)
       ELSE RefundTo(receipt.predecessor_id, deposit_refund)
            \o RefundTo(receipt.signer_id, gas_refund)

\* C10: every executed receipt that is not from the system creates exactly
\* these refunds: on failure the deposits of its actions to the predecessor
\* and the gas not burnt, at the receipt's gas price, to the signer; on
\* success no deposit and the gas not used; one receipt for both when the
\* signer is the predecessor, and no receipt for a refund of zero.
C10_RefundClosure ==
    \A i \in 1..Len(hist.trace) :
        LET ev == hist.trace[i]
        IN (ev.what = "executed" /\ ~IsRefund(Unwrap(ev.executed))) =>
              RefundsOf(ev.new) = ExpectedRefunds(Unwrap(ev.executed), Unwrap(ev.outcome),
                                                  ev.new)

\* a receipt whose signer is not its predecessor failed, after a contract of
\* it had used gas for a promise, and created two refunds; a receipt whose
\* signer is its predecessor used more gas than it burnt, succeeded and
\* created one
C10_Witness ==
    /\ \E i \in 1..Len(hist.trace) :
          /\ hist.trace[i].what = "executed"
          /\ Unwrap(hist.trace[i].executed) = RFwdFail
          /\ Unwrap(hist.trace[i].outcome).status.tag = "Failure"
          /\ Len(RefundsOf(hist.trace[i].new)) = 2
    /\ \E i \in 1..Len(hist.trace) :
          /\ hist.trace[i].what = "executed"
          /\ Unwrap(hist.trace[i].executed) = RFwd
          /\ Unwrap(hist.trace[i].outcome).status.tag = "SuccessReceiptId"
          /\ PromisedGas(hist.trace[i].new) > 0
          /\ Len(RefundsOf(hist.trace[i].new)) = 1

----------------------------------------------------------------------------
(* C11: determinism *)

\* C11: the result of an apply does not depend on the order in which the
\* stake_info and slashing_info maps are iterated, the one choice an apply
\* makes that its inputs do not fix: whatever order the update of the
\* validator accounts takes, it fails under every order or it succeeds under
\* every order, with the same state and the same stats; the orders are not read
\* again, so state_root, outgoing_receipts and outcomes are the same.
C11_Determinism ==
    [][(pc = "validators" /\ IsSome(inp.vau)) =>
          \A stake_order \in Perms(DOMAIN Unwrap(inp.vau).stake_info),
             slash_order \in Perms(DOMAIN Unwrap(inp.vau).slashing_info) :
              LET v == update_validator_accounts(su, Unwrap(inp.vau), loc.stats,
                                                 stake_order, slash_order)
              IN /\ res'.status = "Err" <=> IsError(v.err)
                 /\ ~IsError(v.err) =>
                        /\ pc' = "txs"
                        /\ su' = v.st
                        /\ cm' = v.st
                        /\ loc' = [loc EXCEPT !.stats = v.stats]]_vars

\* an apply returned Ok after an update with two stakers and two slashed
\* accounts, taken in the order bob, alice
C11_Witness ==
    /\ res.status = "Ok"
    /\ inp.vau = Some(VauOrder)
    /\ inp.stake_order = <<"bob", "alice">>
    /\ inp.slash_order = <<"bob", "alice">>
    /\ res.stats.total_balance_slashed = 2
    /\ Unwrap(get_account(store, "alice")).locked = 3

----------------------------------------------------------------------------
(* C12: checked arithmetic *)

\* C12 as stated: every sum of apply is checked, so an apply never panics on
\* arithmetic (an overflow returns UnexpectedIntegerOverflow) and its
\* total_gas_burnt is never a wrapped value: it is the sum of the gas burnt by
\* the outcomes so far.
C12_EverySumChecked ==
    /\ res.err.kind # "Panic"
    /\ pc # "idle" => loc.total_gas_burnt = SumGas(loc.outcomes, Len(loc.outcomes))

----------------------------------------------------------------------------
(* C13: the structure of the delayed queue *)

\* C13: in the state every successful apply leaves, first_index is at most
\* next_available_index and the delayed receipts are stored at exactly the
\* indices from first_index up to next_available_index - 1; from one apply to
\* the next neither index decreases.
C13_DelayedQueueStructure ==
    /\ [](LET indices == get_delayed_indices(store)
          IN /\ indices.first_index <= indices.next_available_index
             /\ DOMAIN store.delayed
                = indices.first_index..(indices.next_available_index - 1))
    /\ [][/\ get_delayed_indices(store').first_index
             >= get_delayed_indices(store).first_index
          /\ get_delayed_indices(store').next_available_index
             >= get_delayed_indices(store).next_available_index]_vars

\* a second apply took a receipt from the queue and put another one in: the
\* queue starts above index zero and is not empty
C13_Witness ==
    /\ res.status = "Ok"
    /\ get_delayed_indices(store).first_index > 0
    /\ get_delayed_indices(store).next_available_index
       > get_delayed_indices(store).first_index
    /\ \E i \in 1..Len(hist.trace) : WasDelayed(hist.trace[i])

----------------------------------------------------------------------------
(* C14: the owner of a receipt *)

\* how many positions of the sequence hold the receipt
TimesIn(receipts, r) == Cardinality({i \in 1..Len(receipts) : receipts[i] = r})

\* how many keys of the map hold the receipt
TimesStored(map, r) == Cardinality({k \in DOMAIN map : map[k] = r})

\* the receipts of a list that the running apply has not reached yet: all of
\* them before the list's loop, those after position loc.i during it
NotReached(receipts, before, during, r) ==
    IF pc \in before THEN TimesIn(receipts, r)
    ELSE IF pc = during
    THEN Cardinality({i \in (loc.i + 1)..Len(receipts) : receipts[i] = r})
    ELSE 0

\* how many times the running apply has executed the receipt: an action
\* receipt once per outcome, a data receipt once per time its data was stored
TimesExecuted(r) ==
    IF r.type = "Data"
    THEN Cardinality({i \in 1..Len(hist.trace) :
             /\ hist.trace[i].id = r.receipt_id
             /\ hist.trace[i].phase # "tx"
             /\ ~WasDelayed(hist.trace[i])})
    ELSE Cardinality({i \in 1..Len(loc.outcomes) : loc.outcomes[i].id = r.receipt_id})

\* the receipts the running apply handles
HandledReceipts ==
    Range(inp.incoming) \cup Range(loc.local_receipts) \cup Range(loc.outgoing)
    \cup {store.delayed[k] : k \in DOMAIN store.delayed}
    \cup {store.postponed[k] : k \in DOMAIN store.postponed}
    \cup {su.delayed[k] : k \in DOMAIN su.delayed}
    \cup {su.postponed[k] : k \in DOMAIN su.postponed}

Owners(r) ==
    NotReached(inp.incoming, {"validators", "txs", "local", "delayed"}, "incoming", r)
    + NotReached(loc.local_receipts, {"validators", "txs"}, "local", r)
    + TimesIn(loc.outgoing, r) + TimesStored(su.postponed, r)
    + TimesStored(su.delayed, r) + TimesExecuted(r)

\* C14: at every step of an apply each receipt it handles is in exactly one
\* place: still to be considered, in the outgoing vector, in the postponed
\* store, in the delayed queue, or executed; never in none, never in two
C14_SingleOwner ==
    pc # "idle" => \A r \in HandledReceipts : Owners(r) = 1

\* an apply that has executed one receipt and delayed another while a third
\* waits for its data in the postponed store
C14_Witness ==
    /\ pc = "finish"
    /\ \E r \in Range(inp.incoming) : TimesStored(su.delayed, r) = 1
    /\ \E r \in Range(inp.incoming) \cup Range(loc.local_receipts) : TimesExecuted(r) = 1
    /\ DOMAIN su.postponed # {}

----------------------------------------------------------------------------
(* C15: the apply of nothing *)

\* the last apply was given no validator update, no transaction and no
\* receipt, and found the delayed queue empty
NoOpInput ==
    /\ ~IsSome(inp.vau)
    /\ inp.txs = <<>>
    /\ inp.incoming = <<>>
    /\ get_delayed_indices(hist.before).first_index
           = get_delayed_indices(hist.before).next_available_index

\* C15: an apply with no validator update, no transactions, no incoming
\* receipts and an empty delayed queue returns Ok with no outcomes, no outgoing
\* receipts, no validator proposals, zero stats and the state it was given
C15_NoOpApply ==
    (pc = "idle" /\ res.status # "None" /\ NoOpInput)
        => /\ res.status = "Ok"
           /\ res.outcomes = <<>>
           /\ res.outgoing_receipts = <<>>
           /\ res.validator_proposals = <<>>
           /\ res.stats = ZeroStats
           /\ store = hist.before

\* the second apply was a no-op apply on a state that holds a postponed receipt
C15_Witness ==
    /\ pc = "idle"
    /\ res.status = "Ok"
    /\ NoOpInput
    /\ height = 2
    /\ DOMAIN store.postponed # {}

----------------------------------------------------------------------------
(* C16: the drain of a stream of transfers, as in
   test_apply_delayed_receipts_feed_all_at_once, .._add_more_using_chunks and
   .._adjustable_gas_limit: generate_receipts arrive in order, in chunks, under
   one gas limit *)

DrainN == 4
DrainChunk == 3
DrainApplies == 3

\* gas_limit = 1, one receipt's cost, two receipts' cost
DrainLimits == {Some(1), Some(ReceiptExecFee + TransferExecFee),
                Some(2 * (ReceiptExecFee + TransferExecFee))}

PoolArrivals == Pool({Rcpt(i) : i \in 0..(DrainN - 1)}, {}, {})

\* how many of the receipts have been handed to an apply
Given == DrainN - Cardinality(pool.receipts)

InitDrain == InitWith({Genesis}, {PoolArrivals})

\* the loop body of the tests: the next chunk, no transactions, no validator
\* update, the same gas limit every time
BeginDrainApply ==
    /\ pc = "idle"
    /\ height < DrainApplies
    /\ \E c \in 0..Min(DrainChunk, Cardinality(pool.receipts)),
          gas_limit \in IF height = 0 THEN DrainLimits ELSE {inp.ast.gas_limit} :
         LET chunk == [j \in 1..c |-> Rcpt(Given + j - 1)]
         IN /\ inp' = [NoInput EXCEPT !.incoming = chunk,
                                      !.ast.block_index = height,
                                      !.ast.gas_limit = gas_limit]
            /\ pool' = [pool EXCEPT !.receipts = @ \ Range(chunk)]
    /\ height' = height + 1
    /\ su' = store
    /\ cm' = store
    /\ loc' = InitLoc
    /\ res' = NoResult
    /\ pc' = "validators"
    /\ hist' = [hist EXCEPT !.before = store, !.trace = <<>>, !.lost = 0]
    /\ UNCHANGED store

NextDrain ==
    \/ BeginDrainApply
    \/ UpdateValidators
    \/ TxStep
    \/ LocalStep
    \/ DelayedStep
    \/ IncomingStep
    \/ Finish

SpecDrain == InitDrain /\ [][NextDrain]_vars

\* how many single-transfer receipts a gas limit admits per apply: receipts
\* run while the gas burnt so far is below the limit
AdmittedPerApply(gas_limit) ==
    (Unwrap(gas_limit) + ReceiptExecFee + TransferExecFee - 1)
        \div (ReceiptExecFee + TransferExecFee)

\* the events of the list that executed a receipt
Executions(evs) == SelectSeq(evs, HasOutcome)

\* the ids of R(from)..R(to - 1), in arrival order
ArrivalIds(from, to) == [i \in 1..(to - from) |-> Rcpt(from + i - 1).receipt_id]

\* the deposits of R0..R(m-1)
PrefixDeposits(m) == SumSeq([i \in 1..m |-> total_deposit(Rcpt(i - 1).actions)])

\* C16 as stated: after every apply the executed receipts are R0..R(m-1) with
\* m = min(k * applies so far, receipts given so far) and the receiver's amount
\* is its initial amount plus the deposits of that prefix
C16_FixedRateDrain ==
    (pc = "idle" /\ height >= 1)
        => LET m == Len(Executions(hist.log))
           IN /\ EventIds(Executions(hist.log)) = ArrivalIds(0, m)
              /\ m = Min(AdmittedPerApply(inp.ast.gas_limit) * height, Given)
              /\ store.accounts["alice"].amount
                     = Genesis.accounts["alice"].amount + PrefixDeposits(m)

\* C16: after every apply of the stream the executed receipts are a prefix
\* R0..R(m-1) of the arrival order, each apply having executed min(k, receipts
\* given and not yet executed) of them, the rest waiting in the delayed queue
\* in arrival order; the receiver's amount is its initial amount plus the
\* deposits of that prefix less the rent it was charged; an apply after the
\* last execution changes nothing
C16_PrefixDrain ==
    (pc = "idle" /\ height >= 1)
        => LET m == Len(Executions(hist.log))
               last == Len(Executions(hist.trace))
               alice == store.accounts["alice"]
           IN /\ res.status = "Ok"
              /\ EventIds(Executions(hist.log)) = ArrivalIds(0, m)
              /\ last = Min(AdmittedPerApply(inp.ast.gas_limit), Given - (m - last))
              /\ QueueIds(store) = ArrivalIds(m, Given)
              /\ alice.amount = Genesis.accounts["alice"].amount + PrefixDeposits(m)
                                    - alice.storage_paid_at * RentPerBlock
              /\ (m - last = DrainN => store = hist.before)

\* under a limit that admits one receipt per apply three applies have executed
\* R0, R1 and R2, one each, and R3 is still delayed
C16_Witness ==
    /\ pc = "idle"
    /\ height = 3
    /\ AdmittedPerApply(inp.ast.gas_limit) = 1
    /\ Given = DrainN
    /\ Len(Executions(hist.log)) = 3
    /\ Len(Executions(hist.trace)) = 1
    /\ Len(QueueIds(store)) = 1

----------------------------------------------------------------------------
(* C17: receipts of the system account *)

\* the event the step has appended to the trace
NewEvent == hist'.trace[Len(hist'.trace)]

\* the step has executed a receipt whose predecessor is the system account
SystemReceiptExecuted ==
    /\ pc # "idle"
    /\ pc' # "idle"
    /\ Len(hist'.trace) = Len(hist.trace) + 1
    /\ IsSome(NewEvent.executed)
    /\ IsRefund(Unwrap(NewEvent.executed))

\* C17: the execution of a receipt from the system account burns no gas
\* (outcome gas_burnt 0, total_gas_burnt unchanged), produces no receipt, and
\* adds the deposit of its actions to stats.total_balance_burnt when it fails
\* and nothing when it succeeds
C17_SystemReceiptsFree ==
    [][SystemReceiptExecuted =>
          /\ Unwrap(NewEvent.outcome).gas_burnt = 0
          /\ loc'.total_gas_burnt = loc.total_gas_burnt
          /\ NewEvent.new = <<>>
          /\ loc'.outgoing = loc.outgoing
          /\ loc'.stats.total_balance_burnt
                 = loc.stats.total_balance_burnt
                   + (IF Unwrap(NewEvent.outcome).status.tag = "Failure"
                      THEN total_deposit(Unwrap(NewEvent.executed).actions) ELSE 0)]_vars

\* an apply has executed a system receipt that succeeded and one that failed,
\* and reports the deposit of the failed one as burnt
C17_Witness ==
    /\ pc = "finish"
    /\ \E i, j \in 1..Len(hist.trace) :
          /\ IsSome(hist.trace[i].executed) /\ IsSome(hist.trace[j].executed)
          /\ IsRefund(Unwrap(hist.trace[i].executed))
          /\ IsRefund(Unwrap(hist.trace[j].executed))
          /\ Unwrap(hist.trace[i].outcome).status.tag = "Failure"
          /\ Unwrap(hist.trace[j].outcome).status.tag # "Failure"
          /\ loc.stats.total_balance_burnt
                 = total_deposit(Unwrap(hist.trace[i].executed).actions)
    /\ loc.stats.total_balance_burnt > 0

----------------------------------------------------------------------------
(* The validator accounts update over a bounded set of updates: one or two
   stakers, rewards, last proposals, slashes and treasuries that exist, are
   short of stake, overdrawn or missing *)

VauInputs ==
    {ValidatorAccountsUpdate(stake_info, validator_rewards, last_proposals,
                             protocol_treasury_account_id, slashing_info) :
        stake_info \in {EmptyMap, [a \in {"alice"} |-> 5], [a \in {"alice"} |-> 30],
                        [a \in {"bob"} |-> 0], [a \in {"carol"} |-> 1],
                        [a \in {"alice", "bob"} |-> IF a = "alice" THEN 5 ELSE 0]},
        validator_rewards \in {EmptyMap, [a \in {"alice"} |-> 10], [a \in {"bob"} |-> 3],
                               [a \in {"alice"} |-> U128_MAX]},
        last_proposals \in {EmptyMap, [a \in {"alice"} |-> 3], [a \in {"alice"} |-> 12],
                            [a \in {"alice"} |-> 40]},
        protocol_treasury_account_id \in {None, Some("alice"), Some("bob"), Some("carol")},
        slashing_info \in {EmptyMap, [a \in {"alice"} |-> Some(2)],
                           [a \in {"alice"} |-> None], [a \in {"alice"} |-> Some(50)],
                           [a \in {"carol"} |-> None]}}

\* the first apply of a chain, with a validator accounts update and at most one
\* transaction
BeginValidatorsApply ==
    /\ pc = "idle"
    /\ height = 0
    /\ \E vau \in VauInputs, txs \in {<<>>, <<Tx(0)>>} :
         \E stake_order \in Perms(DOMAIN vau.stake_info),
            slash_order \in Perms(DOMAIN vau.slashing_info) :
            inp' = [NoInput EXCEPT !.txs = txs, !.vau = Some(vau),
                                   !.stake_order = stake_order,
                                   !.slash_order = slash_order]
    /\ height' = height + 1
    /\ su' = store
    /\ cm' = store
    /\ loc' = InitLoc
    /\ res' = NoResult
    /\ pc' = "validators"
    /\ hist' = [hist EXCEPT !.before = store, !.trace = <<>>, !.lost = 0]
    /\ UNCHANGED <<store, pool>>

NextValidators ==
    \/ BeginValidatorsApply
    \/ UpdateValidators
    \/ TxStep
    \/ LocalStep
    \/ DelayedStep
    \/ IncomingStep
    \/ Finish

SpecValidators == InitWith({Genesis}, {Pool({}, {}, {})}) /\ [][NextValidators]_vars

----------------------------------------------------------------------------
(* C18: the stake-return pass *)

RewardOf(vau, account_id) ==
    IF MapHas(vau.validator_rewards, account_id) THEN vau.validator_rewards[account_id]
    ELSE 0

ProposalOf(vau, account_id) ==
    IF MapHas(vau.last_proposals, account_id) THEN vau.last_proposals[account_id] ELSE 0

\* what the claim says stays locked
KeptStake(vau, account_id) == Max(vau.stake_info[account_id], ProposalOf(vau, account_id))

\* the account does not exist, or its locked balance with the reward is below
\* max_of_stakes
MissingOrShort(st, vau, account_id) ==
    \/ ~MapHas(st.accounts, account_id)
    \/ st.accounts[account_id].locked + RewardOf(vau, account_id)
           < vau.stake_info[account_id]

\* one of the checked operations of the pass fails for the account: the reward
\* overflows locked, the last proposal is above locked, or the returned stake
\* overflows amount
StakeOverflows(st, vau, account_id) ==
    /\ MapHas(st.accounts, account_id)
    /\ LET locked == st.accounts[account_id].locked + RewardOf(vau, account_id)
       IN \/ locked > U128_MAX
          \/ /\ locked >= vau.stake_info[account_id]
             /\ \/ locked < ProposalOf(vau, account_id)
                \/ st.accounts[account_id].amount + locked - KeptStake(vau, account_id)
                       > U128_MAX

\* the pass left every staker with locked = max(max_of_stakes, last_proposal)
\* and amount + locked grown by the reward, and no other account changed
StakesReturned(st, vau, staked) ==
    /\ ~IsError(staked.err)
    /\ DOMAIN staked.st.accounts = DOMAIN st.accounts
    /\ \A a \in DOMAIN st.accounts :
          IF a \in DOMAIN vau.stake_info
          THEN /\ staked.st.accounts[a].locked = KeptStake(vau, a)
               /\ staked.st.accounts[a].amount
                      = st.accounts[a].amount + st.accounts[a].locked
                        + RewardOf(vau, a) - KeptStake(vau, a)
               /\ staked.st.accounts[a].amount + staked.st.accounts[a].locked
                      = st.accounts[a].amount + st.accounts[a].locked + RewardOf(vau, a)
          ELSE staked.st.accounts[a] = st.accounts[a]

\* C18 as stated: the apply fails with StorageInconsistentState when a staker
\* is missing or short, and otherwise the stake is returned
C18_StakeReturnAsStated ==
    [][(pc = "validators" /\ IsSome(inp.vau)) =>
          LET vau == Unwrap(inp.vau)
          IN IF \E a \in DOMAIN vau.stake_info : MissingOrShort(su, vau, a)
             THEN res'.status = "Err" /\ res'.err.kind = "StorageInconsistentState"
             ELSE StakesReturned(su, vau, return_stakes(su, vau, inp.stake_order))]_vars

\* C18: when a staker is missing or short, or a checked operation of the pass
\* overflows, the apply fails and publishes nothing, with
\* StorageInconsistentState if no staker overflows and
\* UnexpectedIntegerOverflow if no staker is missing or short; otherwise every
\* staker ends the pass with locked = max(max_of_stakes, last_proposal) and
\* amount + locked grown by exactly its reward
C18_StakeReturn ==
    [][(pc = "validators" /\ IsSome(inp.vau)) =>
          LET vau == Unwrap(inp.vau)
              stakers == DOMAIN vau.stake_info
          IN IF \E a \in stakers : MissingOrShort(su, vau, a) \/ StakeOverflows(su, vau, a)
             THEN /\ res'.status = "Err"
                  /\ pc' = "idle"
                  /\ store' = store
                  /\ (\A a \in stakers : ~StakeOverflows(su, vau, a))
                        => res'.err.kind = "StorageInconsistentState"
                  /\ (\A a \in stakers : ~MissingOrShort(su, vau, a))
                        => res'.err.kind = "UnexpectedIntegerOverflow"
             ELSE StakesReturned(su, vau, return_stakes(su, vau, inp.stake_order))]_vars

\* the update has given alice her reward and returned her stake down to her
\* last proposal, which is above max_of_stakes
C18_Witness ==
    /\ pc = "txs"
    /\ loc.i = 0
    /\ IsSome(inp.vau)
    /\ MapHas(Unwrap(inp.vau).stake_info, "alice")
    /\ RewardOf(Unwrap(inp.vau), "alice") = 10
    /\ ProposalOf(Unwrap(inp.vau), "alice") = 12
    /\ Unwrap(inp.vau).slashing_info = EmptyMap
    /\ su.accounts["alice"].locked = 12
    /\ su.accounts["alice"].amount = Genesis.accounts["alice"].amount + 3

----------------------------------------------------------------------------
(* C19: the slashing pass *)

\* the amount the claim says is slashed from the account, st being the state
\* after the stake-return pass
AmountToSlash(st, vau, account_id) ==
    IF IsSome(vau.slashing_info[account_id]) THEN Unwrap(vau.slashing_info[account_id])
    ELSE st.accounts[account_id].locked

MissingOrUnderLocked(st, vau, account_id) ==
    \/ ~MapHas(st.accounts, account_id)
    \/ st.accounts[account_id].locked < AmountToSlash(st, vau, account_id)

\* the pass took the amount from locked, left amount and the other accounts
\* alone, and added what it took to total_balance_slashed
Slashed(st, stats, vau, slashed) ==
    /\ ~IsError(slashed.err)
    /\ DOMAIN slashed.st.accounts = DOMAIN st.accounts
    /\ \A a \in DOMAIN st.accounts :
          IF a \in DOMAIN vau.slashing_info
          THEN /\ slashed.st.accounts[a].locked
                      = st.accounts[a].locked - AmountToSlash(st, vau, a)
               /\ slashed.st.accounts[a].amount = st.accounts[a].amount
          ELSE slashed.st.accounts[a] = st.accounts[a]
    /\ slashed.stats.total_balance_slashed
           = stats.total_balance_slashed
             + SumSet(DOMAIN vau.slashing_info,
                      [a \in DOMAIN vau.slashing_info |-> AmountToSlash(st, vau, a)])

\* C19: after a stake-return pass that succeeded, the apply fails with
\* StorageInconsistentState when a slashed account is missing or has less
\* locked than the amount to slash (the slash given, else its whole locked
\* balance); otherwise the amount leaves locked, is added to
\* stats.total_balance_slashed, and amount is unchanged
C19_Slashing ==
    [][(pc = "validators" /\ IsSome(inp.vau)
        /\ ~IsError(return_stakes(su, Unwrap(inp.vau), inp.stake_order).err)) =>
          LET vau == Unwrap(inp.vau)
              staked == return_stakes(su, vau, inp.stake_order).st
              slashed == slash_accounts(staked, loc.stats, vau, inp.slash_order)
          IN IF \E a \in DOMAIN vau.slashing_info : MissingOrUnderLocked(staked, vau, a)
             THEN res'.status = "Err" /\ res'.err.kind = "StorageInconsistentState"
             ELSE /\ Slashed(staked, loc.stats, vau, slashed)
                  /\ pc' = "txs" =>
                         /\ loc'.stats.total_balance_slashed
                                = slashed.stats.total_balance_slashed
                         /\ \A a \in DOMAIN vau.slashing_info :
                                su'.accounts[a].locked = slashed.st.accounts[a].locked]_vars

\* the update has returned alice's stake down to her last proposal and then
\* slashed all of it, no amount being given
C19_Witness ==
    /\ pc = "txs"
    /\ loc.i = 0
    /\ IsSome(inp.vau)
    /\ MapHas(Unwrap(inp.vau).stake_info, "alice")
    /\ ProposalOf(Unwrap(inp.vau), "alice") = 12
    /\ Unwrap(inp.vau).slashing_info = [a \in {"alice"} |-> None]
    /\ loc.stats.total_balance_slashed = 12
    /\ su.accounts["alice"].locked = 0
    /\ su.accounts["alice"].amount = Genesis.accounts["alice"].amount + 3

----------------------------------------------------------------------------
(* C20: the treasury reward and the end of the update *)

\* the state and the stats after the stake-return and slashing passes
AfterPasses(st, stats, vau, stake_order, slash_order) ==
    slash_accounts(return_stakes(st, vau, stake_order).st, stats, vau, slash_order)

PassesSucceed(st, stats, vau, stake_order, slash_order) ==
    /\ ~IsError(return_stakes(st, vau, stake_order).err)
    /\ ~IsError(AfterPasses(st, stats, vau, stake_order, slash_order).err)

\* the update succeeded: one commit of the state it produced, no outcome yet
UpdateCommitted(st) ==
    /\ pc' = "txs"
    /\ su' = st
    /\ cm' = st
    /\ loc'.outcomes = <<>>
    /\ hist'.trace = <<>>

\* C20: after the two passes, a treasury that is set and is not a staker gets
\* validator_rewards[treasury] added to its amount (its locked and the other
\* accounts unchanged) when the sum fits the balance width; a treasury that is
\* a staker, or no treasury, changes nothing more; a missing treasury account
\* or reward fails the apply with StorageInconsistentState and nothing is
\* committed; a successful update is committed once, before any transaction
\* has been processed
C20_Treasury ==
    [][(pc = "validators" /\ IsSome(inp.vau)
        /\ PassesSucceed(su, loc.stats, Unwrap(inp.vau), inp.stake_order, inp.slash_order)) =>
          LET vau == Unwrap(inp.vau)
              st == AfterPasses(su, loc.stats, vau, inp.stake_order, inp.slash_order).st
              treasury == vau.protocol_treasury_account_id
              t == Unwrap(treasury)
          IN /\ loc.outcomes = <<>> /\ loc.i = 0 /\ hist.trace = <<>>
             /\ IF ~IsSome(treasury) \/ MapHas(vau.stake_info, t)
                THEN UpdateCommitted(st)
                ELSE IF ~MapHas(st.accounts, t) \/ ~MapHas(vau.validator_rewards, t)
                THEN /\ res'.status = "Err"
                     /\ res'.err.kind = "StorageInconsistentState"
                     /\ store' = store /\ cm' = store
                ELSE IF st.accounts[t].amount + vau.validator_rewards[t] > U128_MAX
                THEN res'.status = "Err"
                ELSE UpdateCommitted(
                         [st EXCEPT !.accounts[t].amount = @ + vau.validator_rewards[t]])]_vars

\* the update has added bob's treasury reward to his amount, and the
\* transaction of the apply has not been processed yet
C20_Witness ==
    /\ pc = "txs"
    /\ loc.i = 0
    /\ inp.txs # <<>>
    /\ IsSome(inp.vau)
    /\ Unwrap(inp.vau).protocol_treasury_account_id = Some("bob")
    /\ ~MapHas(Unwrap(inp.vau).stake_info, "bob")
    /\ su.accounts["bob"].amount = Genesis.accounts["bob"].amount + 3
    /\ su.accounts["bob"].locked = Genesis.accounts["bob"].locked
    /\ cm = su

----------------------------------------------------------------------------
(* C21: the conversion of a transaction *)

\* the step has converted the transaction inp.txs[loc.i + 1]
TxConverted == pc = "txs" /\ loc.i < Len(inp.txs) /\ pc' = "txs"

\* the receipt the claim describes for the transaction
IsReceiptOf(receipt, tx, ast) ==
    /\ receipt.type = "Action"
    /\ receipt.predecessor_id = tx.signer_id
    /\ receipt.receiver_id = tx.receiver_id
    /\ receipt.actions = tx.actions
    /\ receipt.input_data_ids = <<>>
    /\ receipt.output_data_receivers = <<>>
    /\ receipt.gas_price = ast.gas_price
    /\ receipt.receipt_id = create_nonce_with_nonce(tx.hash, 0)

\* the outcome the claim describes for the transaction
IsOutcomeOf(outcome, tx, gas_burnt) ==
    /\ outcome.id = tx.hash
    /\ outcome.status.tag = "SuccessReceiptId"
    /\ outcome.status.receipt_id = create_nonce_with_nonce(tx.hash, 0)
    /\ outcome.receipt_ids = <<create_nonce_with_nonce(tx.hash, 0)>>
    /\ outcome.gas_burnt = gas_burnt

\* exactly one receipt was appended, to the list named
AppendedOne(before, after, tx, ast) ==
    /\ Len(after) = Len(before) + 1
    /\ SubSeq(after, 1, Len(before)) = before
    /\ IsReceiptOf(after[Len(after)], tx, ast)

\* C21: a verified transaction becomes exactly one action receipt from the
\* signer to the receiver with the transaction's actions, no data
\* dependencies, the apply's gas price and the id hash(tx_hash, 0); its outcome
\* has the transaction's hash, SuccessReceiptId of that id, receipt_ids of that
\* id alone and the verifier's gas_burnt; the verifier's rent_paid and
\* validator_reward are added to the stats; the receipt is appended to the
\* local list iff receiver = signer, else to outgoing_receipts, and a receipt
\* sent out is never executed by this apply
C21_TransactionConversion ==
    /\ [][TxConverted =>
            LET tx == inp.txs[loc.i + 1]
                vr == verify_and_charge_transaction(su, inp.ast, tx).vr
            IN /\ IF tx.receiver_id = tx.signer_id
                  THEN /\ AppendedOne(loc.local_receipts, loc'.local_receipts, tx, inp.ast)
                       /\ loc'.outgoing = loc.outgoing
                  ELSE /\ AppendedOne(loc.outgoing, loc'.outgoing, tx, inp.ast)
                       /\ loc'.local_receipts = loc.local_receipts
               /\ Len(loc'.outcomes) = Len(loc.outcomes) + 1
               /\ SubSeq(loc'.outcomes, 1, Len(loc.outcomes)) = loc.outcomes
               /\ IsOutcomeOf(loc'.outcomes[Len(loc'.outcomes)], tx, vr.gas_burnt)
               /\ loc'.stats.total_rent_paid = loc.stats.total_rent_paid + vr.rent_paid
               /\ loc'.stats.total_validator_reward
                      = loc.stats.total_validator_reward + vr.validator_reward]_vars
    /\ [](pc # "idle" =>
            \A i \in 1..Len(inp.txs) :
                inp.txs[i].receiver_id # inp.txs[i].signer_id
                    => \A j \in 1..Len(loc.outcomes) :
                           loc.outcomes[j].id # create_nonce_with_nonce(inp.txs[i].hash, 0))

\* in a second apply a transaction to another account has been converted: its
\* receipt is the only outgoing one, nothing is local, and the signer's rent
\* is in the stats
C21_Witness ==
    /\ pc = "txs"
    /\ loc.i = 1
    /\ inp.txs[1] = TxOut
    /\ Len(loc.outgoing) = 1
    /\ IsReceiptOf(loc.outgoing[1], TxOut, inp.ast)
    /\ loc.local_receipts = <<>>
    /\ loc.stats.total_rent_paid > 0
    /\ loc.stats.total_validator_reward > 0

----------------------------------------------------------------------------
(* The execution of one incoming action receipt over a bounded set of
   receipts: every list of at most two actions, to an account that exists and
   to one that does not, from an account or from the system, with and without
   output data receivers, at the block the accounts paid rent for and later *)

ReceiptInputs ==
    LET ActionInputs == {Transfer(4), Transfer(1), CreateAccount,
                         FunctionCall("set", 3, 0), FunctionCall("fail", 3, 0),
                         FunctionCall("fwd", 6, 1)}
        ActionLists == {<<>>} \cup {<<a>> : a \in ActionInputs}
                              \cup {<<a, b>> : a \in ActionInputs, b \in ActionInputs}
        DataReceiver(receiver_id, data_id) ==
            [receiver_id |-> receiver_id, data_id |-> data_id]
    IN {ActionReceipt(sender[1], receiver_id, <<"x", 0>>, sender[2], sender[3], <<>>,
                      output_data_receivers, actions) :
           sender \in {<<"bob", "bob", GAS_PRICE>>, <<"bob", "alice", GAS_PRICE>>,
                       <<system_account, system_account, 0>>},
           receiver_id \in {"alice", "carol"},
           output_data_receivers \in {<<>>, <<DataReceiver("bob", "o1")>>,
                                      <<DataReceiver("bob", "o1"),
                                        DataReceiver("alice", "o2")>>},
           actions \in ActionLists}

\* the first apply of a chain, given one receipt
BeginReceiptApply ==
    /\ pc = "idle"
    /\ height = 0
    /\ \E receipt \in ReceiptInputs, block_index \in {0, 2} :
          inp' = [NoInput EXCEPT !.incoming = <<receipt>>,
                                 !.ast.block_index = block_index]
    /\ height' = height + 1
    /\ su' = store
    /\ cm' = store
    /\ loc' = InitLoc
    /\ res' = NoResult
    /\ pc' = "validators"
    /\ hist' = [hist EXCEPT !.before = store, !.trace = <<>>, !.lost = 0]
    /\ UNCHANGED <<store, pool>>

NextReceipts ==
    \/ BeginReceiptApply
    \/ UpdateValidators
    \/ TxStep
    \/ LocalStep
    \/ DelayedStep
    \/ IncomingStep
    \/ Finish

SpecReceipts == InitWith({Genesis}, {Pool({}, {}, {})}) /\ [][NextReceipts]_vars

----------------------------------------------------------------------------
(* C22: the action list of a receipt *)

\* the step has executed an action receipt
ReceiptExecuted ==
    /\ pc # "idle"
    /\ pc' # "idle"
    /\ Len(hist'.trace) = Len(hist.trace) + 1
    /\ IsSome(NewEvent.executed)

\* whether the action fails on an account that exists or not: CreateAccount
\* needs it absent, the others need it present, and the method "fail" fails
ActionFails(action, exists) ==
    IF action.kind = "CreateAccount" THEN exists
    ELSE ~exists \/ (action.kind = "FunctionCall" /\ action.method_name = "fail")

\* the index (from 0) of the first action of the list that fails, taken in
\* list order from position i, or -1
RECURSIVE FirstFailure(_, _, _)
FirstFailure(actions, exists, i) ==
    IF i >= Len(actions) THEN -1
    ELSE IF ActionFails(actions[i + 1], exists) THEN i
    ELSE FirstFailure(actions, TRUE, i + 1)

\* the gas an action burns: its exec fee, and what the contract burns if the
\* call was made
ActionBurnt(action, called) ==
    exec_fee(action)
    + (IF action.kind = "FunctionCall" /\ called THEN Min(FnBurn, action.gas) ELSE 0)

\* the receipt-creation exec fee and the gas burnt by actions 0..last, the
\* last one having failed with the given kind ("" if it did not fail)
BurntUpTo(actions, last, kind) ==
    ReceiptExecFee
    + SumSeq([i \in 1..(last + 1) |->
                 ActionBurnt(actions[i], i <= last \/ kind \in {"", "FunctionCallError"})])

\* the calls made by actions 0..last, one log each
CallsUpTo(actions, last, kind) ==
    Cardinality({i \in 1..(last + 1) :
                    /\ actions[i].kind = "FunctionCall"
                    /\ (i <= last \/ kind \in {"", "FunctionCallError"})})

\* the index of the first failing action, -1 when every action succeeds
FailingIndex(receipt, exists) == FirstFailure(receipt.actions, exists, 0)

\* the last action that ran
LastRun(receipt, exists) ==
    IF FailingIndex(receipt, exists) >= 0 THEN FailingIndex(receipt, exists)
    ELSE Len(receipt.actions) - 1

\* the kind of the action error, "" when no action failed
ActionErrorKind(receipt, outcome, exists) ==
    IF FailingIndex(receipt, exists) >= 0 THEN outcome.status.kind ELSE ""

\* the list stopped at the first failing action: its index is in the error and
\* no later call left a log
ActionListStops(receipt, outcome, exists) ==
    /\ IF FailingIndex(receipt, exists) >= 0
       THEN /\ outcome.status.tag = "Failure"
            /\ outcome.status.index = FailingIndex(receipt, exists)
       ELSE outcome.status.tag = "Failure"
               => outcome.status.kind = "RentUnpaid" /\ outcome.status.index = -1
    /\ Len(outcome.logs)
           = CallsUpTo(receipt.actions, LastRun(receipt, exists),
                       ActionErrorKind(receipt, outcome, exists))

\* gas_burnt is the receipt-creation exec fee plus the gas of the actions run
ActionListGas(receipt, outcome, exists) ==
    outcome.gas_burnt = BurntUpTo(receipt.actions, LastRun(receipt, exists),
                                  ActionErrorKind(receipt, outcome, exists))

\* C22 as stated, of every action receipt
C22_ActionListOfEveryReceipt ==
    [][ReceiptExecuted =>
          LET receipt == Unwrap(NewEvent.executed)
              outcome == Unwrap(NewEvent.outcome)
              exists == MapHas(su.accounts, receipt.receiver_id)
          IN /\ ActionListStops(receipt, outcome, exists)
             /\ FailingIndex(receipt, exists) >= 0
                   => ActionListGas(receipt, outcome, exists)]_vars

\* C22: the actions of a receipt run in list order up to the first that fails:
\* the outcome's error has the index of that action, the calls after it leave
\* no log, and gas_burnt is the receipt-creation exec fee plus the gas burnt by
\* the actions up to and including it, unless the receipt is from the system
\* account, whose gas_burnt is 0
C22_ActionList ==
    [][ReceiptExecuted =>
          LET receipt == Unwrap(NewEvent.executed)
              outcome == Unwrap(NewEvent.outcome)
              exists == MapHas(su.accounts, receipt.receiver_id)
          IN /\ ActionListStops(receipt, outcome, exists)
             /\ IF IsRefund(receipt) THEN outcome.gas_burnt = 0
                ELSE ActionListGas(receipt, outcome, exists)]_vars

\* a receipt of a call followed by a failing call has been executed: it failed
\* at index 1, with the logs and the gas of both calls
C22_Witness ==
    /\ pc = "incoming"
    /\ Len(hist.trace) = 1
    /\ IsSome(hist.trace[1].outcome)
    /\ Unwrap(hist.trace[1].outcome).status.tag = "Failure"
    /\ Unwrap(hist.trace[1].outcome).status.index = 1
    /\ Len(Unwrap(hist.trace[1].outcome).logs) = 2
    /\ Unwrap(hist.trace[1].outcome).gas_burnt
           = ReceiptExecFee + 2 * (FunctionCallExecFee + FnBurn)

----------------------------------------------------------------------------
(* C23: process_receipt of an action receipt *)

\* the receipt the step of the running loop takes
TakenReceipt ==
    CASE pc = "local" -> loc.local_receipts[loc.i + 1]
      [] pc = "incoming" -> inp.incoming[loc.i + 1]
      [] pc = "delayed" -> su.delayed[loc.indices.first_index]

\* the step has handed a receipt to process_receipt, which returned Ok
ReceiptProcessed ==
    /\ pc \in {"local", "delayed", "incoming"}
    /\ pc' # "idle"
    /\ Len(hist'.trace) = Len(hist.trace) + 1
    /\ ~WasDelayed(NewEvent)

\* the positions of the receipt's input_data_ids with no received data
MissingInputs(st, receipt) ==
    {i \in 1..Len(receipt.input_data_ids) :
        ~IsSome(get_received_data(st, receipt.receiver_id, receipt.input_data_ids[i]))}

\* C23: process_receipt of an action receipt whose inputs have all been
\* received executes it at once and returns its outcome; when some are missing
\* it writes postponed_receipt_id[receiver, data_id] = receipt_id for each of
\* them, pending_data_count[receiver, receipt_id] = their number and the
\* receipt in the postponed store, commits, changes no account and returns no
\* outcome
C23_ActionReceiptDispatch ==
    [][(ReceiptProcessed /\ TakenReceipt.type = "Action") =>
          LET receipt == TakenReceipt
              key == <<receipt.receiver_id, receipt.receipt_id>>
              missing == MissingInputs(su, receipt)
          IN IF missing = {}
             THEN /\ IsSome(NewEvent.outcome)
                  /\ Unwrap(NewEvent.outcome).id = receipt.receipt_id
                  /\ NewEvent.executed = Some(receipt)
                  /\ ~MapHas(su'.postponed, key)
                  /\ su'.ppid = su.ppid
                  /\ su'.pending = su.pending
             ELSE /\ ~IsSome(NewEvent.outcome)
                  /\ loc'.outcomes = loc.outcomes
                  /\ su'.pending = MapSet(su.pending, key, Cardinality(missing))
                  /\ su'.postponed = MapSet(su.postponed, key, receipt)
                  /\ DOMAIN su'.ppid
                         = DOMAIN su.ppid
                           \cup {<<receipt.receiver_id, receipt.input_data_ids[i]>> :
                                    i \in missing}
                  /\ \A i \in missing :
                         su'.ppid[<<receipt.receiver_id, receipt.input_data_ids[i]>>]
                            = receipt.receipt_id
                  /\ su'.accounts = su.accounts
                  /\ su'.received = su.received
                  /\ cm' = su']_vars

\* the join receipt arrived after one of its two inputs and waits for the
\* other, with a pending count of 1
C23_Witness ==
    /\ pc # "idle"
    /\ MapHas(su.postponed, <<"alice", RJoin.receipt_id>>)
    /\ su.postponed[<<"alice", RJoin.receipt_id>>] = RJoin
    /\ su.pending[<<"alice", RJoin.receipt_id>>] = 1
    /\ DOMAIN su.ppid = {<<"alice", "d2">>}
    /\ IsSome(get_received_data(su, "alice", "d1"))
    /\ \E i \in 1..Len(hist.trace) : hist.trace[i].id = RJoin.receipt_id

----------------------------------------------------------------------------
(* C24: process_receipt of a data receipt, from states in which the join
   receipt waits for its inputs, and from states whose counter or postponed
   receipt is missing or whose counter is 0 *)

JoinStore(counter, stored, received) ==
    LET key == <<RJoin.receiver_id, RJoin.receipt_id>>
        first == <<RJoin.receiver_id, "d1">>
        second == <<RJoin.receiver_id, "d2">>
    IN [Genesis EXCEPT
           !.ppid = IF received THEN MapSet(EmptyMap, second, RJoin.receipt_id)
                    ELSE MapSet(MapSet(EmptyMap, first, RJoin.receipt_id),
                                second, RJoin.receipt_id),
           !.received = IF received THEN MapSet(EmptyMap, first, Some("v")) ELSE EmptyMap,
           !.pending = IF IsSome(counter) THEN MapSet(EmptyMap, key, Unwrap(counter))
                       ELSE EmptyMap,
           !.postponed = IF stored THEN MapSet(EmptyMap, key, RJoin) ELSE EmptyMap]

DataStores ==
    {Genesis, JoinStore(Some(2), TRUE, FALSE), JoinStore(Some(1), TRUE, TRUE),
     JoinStore(None, TRUE, TRUE), JoinStore(Some(1), FALSE, TRUE),
     JoinStore(Some(0), TRUE, TRUE), JoinStore(Some(1), TRUE, FALSE)}

\* the join receipt, its data receipts, a receipt that lists one input twice
\* and a receipt that waits for an input of the join receipt and then fails
PoolData ==
    Pool({RJoin, RData1, RData2,
          [RJoin EXCEPT !.receipt_id = <<"j", 2>>, !.input_data_ids = <<"d1", "d1">>],
          [RJoin EXCEPT !.receipt_id = <<"j", 3>>, !.input_data_ids = <<"d2">>,
                        !.actions = <<FunctionCall("fail", 3, 0)>>]},
         {}, {})

SpecData == InitWith(DataStores, {PoolData}) /\ [][Next]_vars

\* the step hands a data receipt to process_receipt
DataReceiptTaken ==
    /\ loc.total_gas_burnt < gas_limit_of(inp.ast)
    /\ \/ pc = "incoming" /\ loc.i < Len(inp.incoming)
       \/ pc = "local" /\ loc.i < Len(loc.local_receipts)
       \/ /\ pc = "delayed"
          /\ loc.indices.first_index < loc.indices.next_available_index
          /\ MapHas(su.delayed, loc.indices.first_index)
    /\ TakenReceipt.type = "Data"

\* process_receipt failed the apply with StorageInconsistentState
FailsInconsistent ==
    pc' = "idle" /\ res'.status = "Err" /\ res'.err.kind = "StorageInconsistentState"

\* process_receipt returned no outcome and committed the state that differs
\* from the one before by the data received, the reverse indices and the
\* counters given
OnlyCommits(received, ppid, pending) ==
    /\ pc' # "idle"
    /\ ~IsSome(NewEvent.outcome)
    /\ loc'.outcomes = loc.outcomes
    /\ su'.received = received
    /\ su'.ppid = ppid
    /\ su'.pending = pending
    /\ su'.postponed = su.postponed
    /\ su'.accounts = su.accounts
    /\ cm' = su'

\* C24: process_receipt of a data receipt stores the data; with no reverse
\* index for its data_id it only commits; with one it removes the reverse
\* index and, if other inputs are pending, decrements the counter and only
\* commits; if this was the last input it removes the counter and the
\* postponed receipt and executes that receipt, whose id is the outcome's; a
\* missing counter, a counter of 0 or a missing postponed receipt is a
\* StorageInconsistentState error
C24_DataReceiptDispatch ==
    [][DataReceiptTaken =>
          LET receipt == TakenReceipt
              data_key == <<receipt.receiver_id, receipt.data_id>>
              received == MapSet(su.received, data_key, receipt.data)
              ppid == MapRemove(su.ppid, data_key)
          IN IF ~MapHas(su.ppid, data_key)
             THEN OnlyCommits(received, su.ppid, su.pending)
             ELSE LET key == <<receipt.receiver_id, su.ppid[data_key]>>
                  IN IF ~MapHas(su.pending, key) \/ su.pending[key] = 0
                     THEN FailsInconsistent
                     ELSE IF su.pending[key] > 1
                     THEN OnlyCommits(received, ppid,
                                      MapSet(su.pending, key, su.pending[key] - 1))
                     ELSE IF ~MapHas(su.postponed, key)
                     THEN FailsInconsistent
                     ELSE pc' # "idle" =>
                             /\ IsSome(NewEvent.outcome)
                             /\ Unwrap(NewEvent.outcome).id = su.ppid[data_key]
                             /\ NewEvent.executed = Some(su.postponed[key])
                             /\ su'.ppid = ppid
                             /\ su'.pending = MapRemove(su.pending, key)
                             /\ su'.postponed = MapRemove(su.postponed, key)]_vars

\* the second input of the join receipt has arrived after the first: the
\* receipt has left the postponed store and has an outcome
C24_Witness ==
    /\ pc # "idle"
    /\ hist.before = JoinStore(Some(2), TRUE, FALSE)
    /\ Len(hist.trace) = 2
    /\ ~IsSome(hist.trace[1].outcome)
    /\ IsSome(hist.trace[2].outcome)
    /\ Unwrap(hist.trace[2].outcome).id = RJoin.receipt_id
    /\ su.postponed = EmptyMap
    /\ su.pending = EmptyMap
    /\ su.ppid = EmptyMap

----------------------------------------------------------------------------
(* C25: ActionResult::merge applied to bounded sub-results; loc is the
   accumulator, inp the sub-result merged last, height the number of merges *)

MergeInputs ==
    {[gas_burnt |-> g[1], gas_burnt_for_function_call |-> g[2], gas_used |-> g[3],
      result |-> o[1], new_receipts |-> o[2],
      logs |-> l[1], validator_proposals |-> l[2]] :
        g \in {<<0, 0, 0>>, <<1, 0, 1>>, <<2, 1, 3>>, <<2, 0, 1>>,
               <<U64_MAX, 0, U64_MAX>>},
        o \in {<<RetNone, <<>>>>, <<RetValue("v"), <<Rcpt(0)>>>>,
               <<RetReceiptIndex(0), <<Rcpt(1)>>>>,
               <<RetReceiptIndex(1), <<Rcpt(0), Rcpt(1)>>>>,
               <<RetErr("AccountDoesNotExist"), <<>>>>,
               <<RetErr("FunctionCall"), <<Rcpt(0)>>>>},
        l \in {<< <<>>, <<>> >>,
               << <<"log">>, <<[account_id |-> "alice", amount |-> 1]>> >>}}

\* self.merge(next_result)?, which returns Ok(()), returns an error or panics
Merge ==
    /\ pc = "merge"
    /\ height < MaxHeight
    /\ \E next_result \in MergeInputs :
          \E m \in {merge(loc, next_result)} :
             /\ inp' = next_result
             /\ IF m.err = NoError
                THEN /\ loc' = m.r
                     /\ height' = height + 1
                     /\ UNCHANGED <<pc, res>>
                ELSE /\ pc' = "failed"
                     /\ res' = [NoResult EXCEPT !.status = "Err", !.err = m.err]
                     /\ UNCHANGED <<loc, height>>
    /\ UNCHANGED <<store, pool, su, cm, hist>>

SpecMerge ==
    /\ store = Genesis /\ su = Genesis /\ cm = Genesis
    /\ pool = Pool({}, {}, {}) /\ hist = InitHist /\ res = NoResult
    /\ height = 0
    /\ pc = "merge"
    /\ inp = DefaultActionResult
    /\ loc = DefaultActionResult
    /\ [][Merge]_vars

\* the sums of the three gas fields of the accumulator and the sub-result
GasSums(self, next_result) ==
    <<self.gas_burnt + next_result.gas_burnt,
      self.gas_burnt_for_function_call + next_result.gas_burnt_for_function_call,
      self.gas_used + next_result.gas_used>>

\* C25: merge adds the three gas fields and fails with an overflow error when
\* a sum exceeds u64; it appends the logs; on an Ok sub-result it appends the
\* new receipts and the validator proposals, takes the sub-result's result and
\* shifts a ReceiptIndex by the number of receipts accumulated before, so that
\* it designates the same receipt; on an Err sub-result the result is the
\* error and no new receipt or validator proposal remains
C25_Merge ==
    [][pc = "merge" =>
          LET self == loc
              next_result == inp'
              sums == GasSums(self, next_result)
          IN /\ pc' = "merge" =>
                  /\ <<loc'.gas_burnt, loc'.gas_burnt_for_function_call,
                       loc'.gas_used>> = sums
                  /\ \A i \in 1..3 : sums[i] <= U64_MAX
                  /\ loc'.logs = self.logs \o next_result.logs
                  /\ IF next_result.result.tag = "Err"
                     THEN /\ loc'.result = next_result.result
                          /\ loc'.new_receipts = <<>>
                          /\ loc'.validator_proposals = <<>>
                     ELSE /\ loc'.new_receipts
                               = self.new_receipts \o next_result.new_receipts
                          /\ loc'.validator_proposals
                               = self.validator_proposals
                                 \o next_result.validator_proposals
                          /\ IF next_result.result.tag = "ReceiptIndex"
                             THEN /\ loc'.result.tag = "ReceiptIndex"
                                  /\ loc'.result.index
                                       = next_result.result.index + Len(self.new_receipts)
                                  /\ loc'.new_receipts[loc'.result.index + 1]
                                       = next_result.new_receipts[next_result.result.index + 1]
                             ELSE loc'.result = next_result.result
             /\ pc' = "failed" /\ res'.err.kind = "UnexpectedIntegerOverflow" =>
                  \E i \in 1..3 : sums[i] > U64_MAX
             /\ (\E i \in 1..3 : sums[i] > U64_MAX) => pc' = "failed"]_vars

\* a failing sub-result has been merged into an accumulator that held new
\* receipts and validator proposals of an earlier action
C25_Witness ==
    /\ pc = "merge"
    /\ height = 2
    /\ inp.result.tag = "Err"
    /\ loc.result.tag = "Err"
    /\ loc.new_receipts = <<>>
    /\ loc.validator_proposals = <<>>
    /\ Len(loc.logs) = 2
    /\ loc.gas_burnt = 3

\* a ReceiptIndex has been shifted past the receipts of an earlier action
C25_WitnessShift ==
    /\ pc = "merge"
    /\ loc.result.tag = "ReceiptIndex"
    /\ loc.result.index = 3
    /\ Len(loc.new_receipts) = 4

----------------------------------------------------------------------------
(* C26: the output data of an executed receipt *)

IsDataReceipt(r) == r.type = "Data"

\* the data receipts among the receipts the executed receipt created
CreatedData == SelectSeq(NewEvent.new, IsDataReceipt)

\* the receipts created whose id is the one a SuccessReceiptId status names
DesignatedChildren ==
    SelectSeq(NewEvent.new,
              LAMBDA r : r.receipt_id = Unwrap(NewEvent.outcome).status.receipt_id)

\* the data an outcome status sends to the output data receivers
DataOfStatus(status) ==
    IF status.tag = "SuccessValue" THEN Some(status.value) ELSE None

\* C26: a receipt without output data receivers creates no data receipt; one
\* whose result is ReceiptIndex(i) creates none either and child i ends with
\* the parent's output data receivers; any other one creates exactly one data
\* receipt per output data receiver, in order, from the executing account to
\* the receiver, with the receiver's data_id and with the value returned, the
\* empty value for a success without value, or None after a failure
C26_OutputData ==
    [][ReceiptExecuted =>
          LET receipt == Unwrap(NewEvent.executed)
              receivers == receipt.output_data_receivers
              status == Unwrap(NewEvent.outcome).status
          IN IF receivers = <<>> THEN CreatedData = <<>>
             ELSE IF status.tag = "SuccessReceiptId"
             THEN /\ CreatedData = <<>>
                  /\ Len(DesignatedChildren) = 1
                  /\ IsActionReceipt(DesignatedChildren[1])
                  /\ \E own \in {DesignatedChildren[1].output_data_receivers} :
                        /\ Len(own) >= Len(receivers)
                        /\ SubSeq(own, Len(own) - Len(receivers) + 1, Len(own)) = receivers
             ELSE /\ Len(CreatedData) = Len(receivers)
                  /\ \A i \in 1..Len(receivers) :
                        /\ CreatedData[i].predecessor_id = receipt.receiver_id
                        /\ CreatedData[i].receiver_id = receivers[i].receiver_id
                        /\ CreatedData[i].data_id = receivers[i].data_id
                        /\ CreatedData[i].data = DataOfStatus(status)]_vars

\* the trace has a receipt with two output data receivers that returned a
\* value and created two data receipts carrying it
C26_Witness ==
    /\ pc # "idle"
    /\ \E i \in 1..Len(hist.trace) :
          /\ IsSome(hist.trace[i].executed)
          /\ Len(Unwrap(hist.trace[i].executed).output_data_receivers) = 2
          /\ Unwrap(hist.trace[i].outcome).status.tag = "SuccessValue"
          /\ Unwrap(hist.trace[i].outcome).status.value = "v"
          /\ Len(SelectSeq(hist.trace[i].new, IsDataReceipt)) = 2
          /\ \A k \in 1..2 :
                SelectSeq(hist.trace[i].new, IsDataReceipt)[k].data = Some("v")

----------------------------------------------------------------------------
(* C27: the ids of the receipts an executed receipt creates, and its outcome *)

IsForward(action) == action.kind = "FunctionCall" /\ action.method_name = "fwd"

\* the children come as the vector holds them: the receipts the actions made,
\* then the refunds, then the data receipts
InVectorOrder(new) ==
    \A i, j \in 1..Len(new) :
        i < j => /\ ~(IsDataReceipt(new[i]) /\ IsActionReceipt(new[j]))
                 /\ ~(IsRefund(new[i]) /\ IsActionReceipt(new[j]) /\ ~IsRefund(new[j]))

\* the status of the outcome of a receipt none of whose actions failed, from
\* what its last action returns: a call of "fwd" the receipt it made (the
\* n-th made by the receipt when n calls of "fwd" ran), another call its
\* value, any other action (or none) nothing
StatusOfLast(receipt, status, new) ==
    LET actions == receipt.actions
        forwards == Len(SelectSeq(actions, IsForward))
    IN IF actions # <<>> /\ IsForward(actions[Len(actions)])
       THEN /\ status.tag = "SuccessReceiptId"
            /\ status.receipt_id = new[forwards].receipt_id
            /\ IsActionReceipt(new[forwards])
            /\ ~IsRefund(new[forwards])
       ELSE /\ status.tag = "SuccessValue"
            /\ status.value = IF actions # <<>> /\ actions[Len(actions)].kind = "FunctionCall"
                              THEN "v" ELSE ""

\* C27: the receipts an executed receipt creates are appended to the outgoing
\* receipts in vector order, child k (from 0) with the id
\* hash(parent receipt_id, k); the outcome has the id of the parent and lists
\* in receipt_ids the ids of the children that are action receipts, in order,
\* and none of a data receipt; its status is Failure for an error, the id of
\* the child returned for a receipt index, the value for a value and the
\* empty value for no value
C27_ReceiptIds ==
    [][ReceiptExecuted =>
          LET receipt == Unwrap(NewEvent.executed)
              outcome == Unwrap(NewEvent.outcome)
              new == NewEvent.new
              exists == MapHas(su.accounts, receipt.receiver_id)
          IN /\ outcome.id = receipt.receipt_id
             /\ loc'.outgoing = loc.outgoing \o new
             /\ \A k \in 1..Len(new) :
                   new[k].receipt_id = create_nonce_with_nonce(receipt.receipt_id, k - 1)
             /\ InVectorOrder(new)
             /\ outcome.receipt_ids = ReceiptIdsOf(SelectSeq(new, IsActionReceipt))
             /\ IF FailingIndex(receipt, exists) >= 0
                THEN outcome.status.tag = "Failure"
                ELSE \/ outcome.status.tag = "Failure" /\ outcome.status.kind = "RentUnpaid"
                     \/ StatusOfLast(receipt, outcome.status, new)]_vars

\* a receipt with two output data receivers that returned a value was
\* executed: it made a refund, which is the only id in receipt_ids, and two
\* data receipts after it
C27_Witness ==
    /\ pc # "idle"
    /\ \E i \in 1..Len(hist.trace) :
          /\ IsSome(hist.trace[i].executed)
          /\ Len(hist.trace[i].new) = 3
          /\ IsRefund(hist.trace[i].new[1])
          /\ IsDataReceipt(hist.trace[i].new[2])
          /\ IsDataReceipt(hist.trace[i].new[3])
          /\ Unwrap(hist.trace[i].outcome).receipt_ids
                = <<create_nonce_with_nonce(hist.trace[i].id, 0)>>
          /\ Unwrap(hist.trace[i].outcome).status.tag = "SuccessValue"
          /\ Unwrap(hist.trace[i].outcome).status.value = "v"

----------------------------------------------------------------------------
(* One incoming receipt that stakes, deletes the account or calls a
   contract, from its receiver or from another account *)

AccountReceiptInputs ==
    LET ActionInputs == {Stake(8), Stake(2), Stake(0), Stake(24), Transfer(1),
                         FunctionCall("set", 3, 0), FunctionCall("fail", 3, 0),
                         FunctionCall("fwd", 6, 1)}
        Prefixes == {<<>>} \cup {<<a>> : a \in ActionInputs}
        ActionLists == Prefixes
                       \cup {<<a, b>> : a \in ActionInputs, b \in ActionInputs}
                       \cup {Append(p, DeleteAccount("alice")) : p \in Prefixes}
    IN {ActionReceipt(sender[1], sender[2], <<"x", 0>>, sender[1], GAS_PRICE, <<>>,
                      <<>>, actions) :
           sender \in {<<"alice", "alice">>, <<"bob", "bob">>, <<"bob", "alice">>},
           actions \in ActionLists}

\* the first apply of a chain, given one receipt
BeginAccountApply ==
    /\ pc = "idle"
    /\ height = 0
    /\ \E receipt \in AccountReceiptInputs, block_index \in {0, 2} :
          inp' = [NoInput EXCEPT !.incoming = <<receipt>>,
                                 !.ast.block_index = block_index]
    /\ height' = height + 1
    /\ su' = store
    /\ cm' = store
    /\ loc' = InitLoc
    /\ res' = NoResult
    /\ pc' = "validators"
    /\ hist' = [hist EXCEPT !.before = store, !.trace = <<>>, !.lost = 0]
    /\ UNCHANGED <<store, pool>>

SpecAccounts ==
    /\ InitWith({Genesis}, {Pool({}, {}, {})})
    /\ [][BeginAccountApply \/ UpdateValidators \/ TxStep \/ LocalStep \/ DelayedStep
             \/ IncomingStep \/ Finish]_vars

----------------------------------------------------------------------------
(* C28: the gas reward of the receiver *)

\* gas_burnt_for_function_call of the executed receipt: every call made left
\* one log and burnt FnBurn
BurntForFunctionCall(outcome) == FnBurn * Len(outcome.logs)

\* the receiver's share of the gas burnt by its calls
ReceiverGasReward(outcome) ==
    (BurntForFunctionCall(outcome) * BurntGasRewardNum) \div BurntGasRewardDen

\* amount + locked of an account of the state, 0 when it is missing
Holdings(st, account_id) ==
    IF MapHas(st.accounts, account_id)
    THEN st.accounts[account_id].amount + st.accounts[account_id].locked
    ELSE 0

\* C28: when the receiver's share of the gas burnt by function calls is
\* positive and the receiver exists after the commit or rollback of the
\* receipt, the account is credited with the share at the receipt's gas_price,
\* failed receipt or not, the credit is committed, and the validator reward
\* grows by gas_burnt * gas_price less the credit; otherwise nothing is
\* credited and the validator reward grows by gas_burnt * gas_price
C28_GasReward ==
    [][ReceiptExecuted =>
          LET receipt == Unwrap(NewEvent.executed)
              outcome == Unwrap(NewEvent.outcome)
              account_id == receipt.receiver_id
              credited == ReceiverGasReward(outcome) > 0 /\ MapHas(su'.accounts, account_id)
              receiver_reward == IF credited
                                 THEN receipt.gas_price * ReceiverGasReward(outcome)
                                 ELSE 0
              rent == loc'.stats.total_rent_paid - loc.stats.total_rent_paid
              gained == IF outcome.status.tag = "Failure" THEN 0
                        ELSE total_deposit(receipt.actions) - rent
          IN /\ loc'.stats.total_validator_reward
                   = loc.stats.total_validator_reward
                     + receipt.gas_price * outcome.gas_burnt - receiver_reward
             /\ MapHas(su'.accounts, account_id) =>
                   Holdings(su', account_id)
                       = Holdings(su, account_id) + gained + receiver_reward
             /\ cm' = su']_vars

\* a receipt whose call failed was rolled back and its receiver credited
C28_Witness ==
    /\ pc # "idle"
    /\ Len(hist.trace) = 1
    /\ IsSome(hist.trace[1].outcome)
    /\ Unwrap(hist.trace[1].outcome).status.tag = "Failure"
    /\ Unwrap(hist.trace[1].outcome).status.kind = "FunctionCallError"
    /\ ReceiverGasReward(Unwrap(hist.trace[1].outcome)) = 1
    /\ Holdings(su, "alice") = Holdings(hist.before, "alice") + GAS_PRICE
    /\ loc.stats.total_validator_reward
           = GAS_PRICE * Unwrap(hist.trace[1].outcome).gas_burnt - GAS_PRICE

----------------------------------------------------------------------------
(* C29: commit or rollback of an executed receipt *)

IsStake(action) == action.kind = "Stake"

\* the proposals of the stake actions of a list, in list order
ProposalsOf(account_id, actions) ==
    LET stakes == SelectSeq(actions, IsStake)
    IN [i \in 1..Len(stakes) |-> [account_id |-> account_id, amount |-> stakes[i].stake]]

\* the rent apply_rent charges the receiver of the receipt, 0 if it is missing
RentCharged(st, account_id, block_index) ==
    IF MapHas(st.accounts, account_id)
    THEN apply_rent(st.accounts[account_id], block_index).rent_paid
    ELSE 0

\* st without what the gas reward added to the amount of the account
WithoutReward(st, account_id, reward) ==
    IF MapHas(st.accounts, account_id)
    THEN [st EXCEPT !.accounts[account_id].amount = @ - reward]
    ELSE st

\* C29: a receipt whose actions and rent check succeed has its receiver
\* written back with the rent paid up to this block, the rent charged added
\* to stats.total_rent_paid, its validator proposals emitted and its state
\* committed; a receipt that fails, by an action or by RentUnpaid, leaves the
\* state as it was before it (but for the gas reward of the receiver) and
\* stats.total_rent_paid unchanged, emits no validator proposal and creates
\* no receipt other than refunds and data receipts
C29_CommitOrRollback ==
    [][ReceiptExecuted =>
          LET receipt == Unwrap(NewEvent.executed)
              outcome == Unwrap(NewEvent.outcome)
              account_id == receipt.receiver_id
              reward == IF ReceiverGasReward(outcome) > 0
                        THEN receipt.gas_price * ReceiverGasReward(outcome) ELSE 0
          IN IF outcome.status.tag = "Failure"
             THEN /\ WithoutReward(su', account_id, reward) = su
                  /\ loc'.stats.total_rent_paid = loc.stats.total_rent_paid
                  /\ loc'.proposals = loc.proposals
                  /\ \A k \in 1..Len(NewEvent.new) :
                        IsRefund(NewEvent.new[k]) \/ IsDataReceipt(NewEvent.new[k])
             ELSE /\ loc'.stats.total_rent_paid
                       = loc.stats.total_rent_paid
                         + RentCharged(su, account_id, inp.ast.block_index)
                  /\ MapHas(su'.accounts, account_id) =>
                        su'.accounts[account_id].storage_paid_at = inp.ast.block_index
                  /\ loc'.proposals
                       = loc.proposals \o ProposalsOf(account_id, receipt.actions)
                  /\ cm' = su']_vars

\* a receipt that made a promise and staked so much that the rent check
\* failed: RentUnpaid, no proposal, only the refund, the account as before
C29_Witness ==
    /\ pc # "idle"
    /\ inp.ast.block_index = 2
    /\ Len(hist.trace) = 1
    /\ IsSome(hist.trace[1].executed)
    /\ Unwrap(hist.trace[1].executed).actions = <<FunctionCall("fwd", 6, 1), Stake(24)>>
    /\ Unwrap(hist.trace[1].outcome).status.kind = "RentUnpaid"
    /\ loc.proposals = <<>>
    /\ Len(hist.trace[1].new) = 1
    /\ IsRefund(hist.trace[1].new[1])
    /\ loc.stats.total_rent_paid = 0
    /\ su.accounts["alice"].locked = hist.before.accounts["alice"].locked

----------------------------------------------------------------------------
(* C30: the delayed receipt indices at the end of apply *)

\* the running apply enqueued or dequeued a delayed receipt
QueueMoved ==
    \E i \in 1..Len(hist.trace) : WasDelayed(hist.trace[i]) \/ WasDequeued(hist.trace[i])

\* C30: at the end of apply the indices differ from those read at the start
\* exactly when a receipt was enqueued or dequeued; the record is then, and
\* only then, written; the balance audit runs on the state with the record
\* written; and the apply that passes the audit commits that state
C30_IndicesWritten ==
    [][pc = "finish" =>
          LET changed == loc.indices # loc.initial_indices
              written == [su EXCEPT !.indices = Some(loc.indices)]
              final == IF changed THEN written ELSE su
          IN /\ loc.initial_indices = get_delayed_indices(hist.before)
             /\ changed <=> QueueMoved
             /\ res'.status = "Ok"
                   <=> ~IsError(check_balance(store, final, inp.vau, inp.incoming,
                                              loc.outgoing, loc.stats))
             /\ res'.status = "Ok" => store' = final /\ cm' = final
             /\ res'.status # "Ok" => store' = store]_vars

\* an apply that only dequeued has returned Ok and its indices are stored
C30_Witness ==
    /\ pc = "idle"
    /\ res.status = "Ok"
    /\ hist.trace # <<>>
    /\ \A i \in 1..Len(hist.trace) : WasDequeued(hist.trace[i]) /\ ~WasDelayed(hist.trace[i])
    /\ IsSome(store.indices)
    /\ Unwrap(store.indices).first_index > 0
    /\ Unwrap(store.indices).first_index = Unwrap(store.indices).next_available_index

----------------------------------------------------------------------------
(* C31: an apply without gas_limit *)

\* the receipt loops of the running apply are past the delayed queue
PastDelayedLoop == pc \in {"incoming", "finish"}

\* C31: in an apply without gas_limit whose total_gas_burnt is below the
\* largest gas value, no local or incoming receipt has been delayed and, once
\* the loop over the delayed queue is over, the queue is empty
\* (first_index = next_available_index) and stays so
C31_NoLimit ==
    (pc # "idle" /\ ~IsSome(inp.ast.gas_limit) /\ loc.total_gas_burnt < U64_MAX) =>
        /\ \A i \in 1..Len(hist.trace) : ~WasDelayed(hist.trace[i])
        /\ PastDelayedLoop =>
              /\ loc.indices.first_index = loc.indices.next_available_index
              /\ su.delayed = EmptyMap

\* an apply without gas_limit that started with a queue of delayed receipts
\* has dequeued them and executed an incoming receipt after them
C31_Witness ==
    /\ pc = "finish"
    /\ ~IsSome(inp.ast.gas_limit)
    /\ loc.total_gas_burnt < U64_MAX
    /\ loc.initial_indices.next_available_index - loc.initial_indices.first_index = 2
    /\ loc.indices.first_index = loc.indices.next_available_index
    /\ Len(hist.trace) = 3
    /\ WasDequeued(hist.trace[1]) /\ WasDequeued(hist.trace[2])
    /\ hist.trace[3].phase = "incoming" /\ hist.trace[3].what = "executed"

----------------------------------------------------------------------------
(* Runtime::apply_genesis_state, one loop iteration per step: su is the
   state_update, inp the validators and records given, loc the postponed
   receipts set aside and the position in the running loop *)

MaxRecords == 3

\* a variant of GenesisPostponed that counts every input as pending
GenesisPostponedCountingAll ==
    /\ pc = "postponed"
    /\ IF loc.i < Len(loc.postponed_receipts)
       THEN LET receipt == loc.postponed_receipts[loc.i + 1]
                key == <<receipt.receiver_id, receipt.receipt_id>>
                indexed == index_missing_inputs(su, receipt, receipt.input_data_ids, 0)
            IN IF receipt.type # "Action" \/ indexed.count = 0
               THEN pc' = "panic" /\ UNCHANGED <<su, loc>>
               ELSE /\ su' = [indexed.st EXCEPT
                                 !.pending = MapSet(@, key, Len(receipt.input_data_ids)),
                                 !.postponed = MapSet(@, key, receipt)]
                    /\ loc' = [loc EXCEPT !.i = @ + 1]
                    /\ pc' = pc
       ELSE pc' = "validators" /\ loc' = [loc EXCEPT !.i = 0] /\ su' = su
    /\ UNCHANGED <<store, height, pool, inp, cm, res, hist>>

\* lines 1165-1198: one record; postponed receipts are set aside.  Lines
\* 1199-1205 recompute storage_usage, which Account does not carry here
GenesisRecord ==
    /\ pc = "records"
    /\ IF loc.i < Len(inp.records)
       THEN LET record == inp.records[loc.i + 1]
            IN /\ su' = CASE record.kind = "Account" ->
                               set_account(su, record.account_id, record.account)
                          [] record.kind = "ReceivedData" ->
                               set_received_data(su, record.account_id, record.data_id,
                                                 record.data)
                          [] record.kind = "PostponedReceipt" -> su
               /\ loc' = [loc EXCEPT
                            !.i = @ + 1,
                            !.postponed_receipts =
                                IF record.kind = "PostponedReceipt"
                                THEN Append(@, record.receipt) ELSE @]
               /\ pc' = pc
       ELSE pc' = "postponed" /\ loc' = [loc EXCEPT !.i = 0] /\ su' = su
    /\ UNCHANGED <<store, height, pool, inp, cm, res, hist>>

\* lines 1206-1239: one postponed receipt; the loop over its inputs is the
\* one of process_receipt
GenesisPostponed ==
    /\ pc = "postponed"
    /\ IF loc.i < Len(loc.postponed_receipts)
       THEN LET receipt == loc.postponed_receipts[loc.i + 1]
                key == <<receipt.receiver_id, receipt.receipt_id>>
                indexed == index_missing_inputs(su, receipt, receipt.input_data_ids, 0)
            IN IF receipt.type # "Action" \/ indexed.count = 0
               THEN pc' = "panic" /\ UNCHANGED <<su, loc>>
               ELSE /\ su' = [indexed.st EXCEPT
                                 !.pending = MapSet(@, key, indexed.count),
                                 !.postponed = MapSet(@, key, receipt)]
                    /\ loc' = [loc EXCEPT !.i = @ + 1]
                    /\ pc' = pc
       ELSE pc' = "validators" /\ loc' = [loc EXCEPT !.i = 0] /\ su' = su
    /\ UNCHANGED <<store, height, pool, inp, cm, res, hist>>

\* lines 1241-1255: one validator, or the commit and finalize after the last
GenesisValidator ==
    /\ pc = "validators"
    /\ IF loc.i < Len(inp.validators)
       THEN LET account_id == inp.validators[loc.i + 1].account_id
                account == get_account(su, account_id)
            IN IF ~IsSome(account)
               THEN pc' = "panic" /\ UNCHANGED <<store, su, cm, loc>>
               ELSE /\ su' = set_account(su, account_id,
                                 [Unwrap(account) EXCEPT
                                     !.locked = inp.validators[loc.i + 1].amount])
                    /\ loc' = [loc EXCEPT !.i = @ + 1]
                    /\ UNCHANGED <<store, cm, pc>>
       ELSE /\ store' = su
            /\ cm' = su
            /\ pc' = "done"
            /\ UNCHANGED <<su, loc>>
    /\ UNCHANGED <<height, pool, inp, res, hist>>

\* the state records and the validators of a genesis: two accounts, a received
\* data, a receipt waiting for that data and another, a receipt waiting for
\* that data only
SpecGenesis ==
    /\ \E records \in DistinctSeqs(
                         {[kind |-> "Account", account_id |-> "alice",
                           account |-> Account(20, 0, 0)],
                          [kind |-> "Account", account_id |-> "bob",
                           account |-> Account(10, 3, 0)],
                          [kind |-> "ReceivedData", account_id |-> "alice",
                           data_id |-> "d1", data |-> Some("v")],
                          [kind |-> "PostponedReceipt", receipt |-> RJoin],
                          [kind |-> "PostponedReceipt",
                           receipt |-> [RJoin EXCEPT !.receipt_id = <<"j", 1>>,
                                                     !.input_data_ids = <<"d1">>]]},
                         MaxRecords),
          validators \in {<<>>, <<[account_id |-> "alice", amount |-> 7]>>,
                          <<[account_id |-> "bob", amount |-> 0],
                            [account_id |-> "alice", amount |-> 7]>>,
                          <<[account_id |-> "carol", amount |-> 1]>>} :
          inp = [records |-> records, validators |-> validators]
    /\ pc = "records"
    /\ su = EmptyState /\ cm = EmptyState /\ store = EmptyState
    /\ loc = [i |-> 0, postponed_receipts |-> <<>>]
    /\ height = 0 /\ pool = Pool({}, {}, {}) /\ res = NoResult /\ hist = InitHist
    /\ [][GenesisRecord \/ GenesisPostponed \/ GenesisValidator]_vars

----------------------------------------------------------------------------
(* C32: the genesis state *)

IsReceivedData(record) == record.kind = "ReceivedData"

\* the input_data_ids of the receipt without received data in st
InputsWithoutData(st, receipt) ==
    SelectSeq(receipt.input_data_ids,
              LAMBDA data_id : ~IsSome(get_received_data(st, receipt.receiver_id, data_id)))

\* every received-data record of the genesis is in st
ReceivedStored(st) ==
    \A k \in 1..Len(inp.records) :
        IsReceivedData(inp.records[k]) =>
            get_received_data(st, inp.records[k].account_id, inp.records[k].data_id)
                = Some(inp.records[k].data)

\* C32: apply_genesis_state handles no postponed receipt before every
\* received-data record is stored, whatever the order of the records; for a
\* postponed receipt it writes the reverse index of every input without
\* received data and stores the number of those inputs with the receipt, or
\* panics when there is none; for a validator it sets locked to the amount
\* given and leaves the liquid amount as it is
C32_Genesis ==
    /\ [](pc = "records" =>
             su.ppid = EmptyMap /\ su.pending = EmptyMap /\ su.postponed = EmptyMap)
    /\ [](pc \in {"postponed", "validators", "done"} => ReceivedStored(su))
    /\ [][pc = "postponed" /\ loc.i < Len(loc.postponed_receipts) =>
             LET receipt == loc.postponed_receipts[loc.i + 1]
                 key == <<receipt.receiver_id, receipt.receipt_id>>
                 missing == InputsWithoutData(su, receipt)
             IN IF missing = <<>> THEN pc' = "panic"
                ELSE /\ pc' = "postponed"
                     /\ \A k \in 1..Len(missing) :
                           MapGet(su'.ppid, <<receipt.receiver_id, missing[k]>>)
                               = Some(receipt.receipt_id)
                     /\ MapGet(su'.pending, key) = Some(Len(missing))
                     /\ MapGet(su'.postponed, key) = Some(receipt)
                     /\ su'.received = su.received]_vars
    /\ [][pc = "validators" /\ loc.i < Len(inp.validators) /\ pc' # "panic" =>
             LET validator == inp.validators[loc.i + 1]
             IN /\ su'.accounts[validator.account_id].locked = validator.amount
                /\ su'.accounts[validator.account_id].amount
                       = su.accounts[validator.account_id].amount]_vars

\* a genesis whose records list the postponed receipt before the data it
\* waits for: the receipt is stored with one pending input, and the validator
\* has its stake locked and its amount untouched
C32_Witness ==
    /\ pc = "done"
    /\ Len(inp.records) = 3
    /\ inp.records[1].kind = "PostponedReceipt"
    /\ inp.records[1].receipt = RJoin
    /\ inp.records[2].kind = "ReceivedData"
    /\ inp.records[3].kind = "Account"
    /\ inp.records[3].account_id = "alice"
    /\ inp.validators = <<[account_id |-> "alice", amount |-> 7]>>
    /\ store.pending = MapSet(EmptyMap, <<"alice", RJoin.receipt_id>>, 1)
    /\ store.ppid = MapSet(EmptyMap, <<"alice", "d2">>, RJoin.receipt_id)
    /\ store.accounts["alice"] = Account(20, 7, 0)

----------------------------------------------------------------------------
(* C33: the input data of an executed receipt *)

\* the step hands the taken receipt to process_receipt
ProcessReceiptCalled ==
    /\ loc.total_gas_burnt < gas_limit_of(inp.ast)
    /\ \/ pc = "incoming" /\ loc.i < Len(inp.incoming)
          /\ validate_receipt(inp.incoming[loc.i + 1]) = ""
       \/ pc = "local" /\ loc.i < Len(loc.local_receipts)
       \/ /\ pc = "delayed"
          /\ loc.indices.first_index < loc.indices.next_available_index
          /\ MapHas(su.delayed, loc.indices.first_index)
          /\ validate_receipt(su.delayed[loc.indices.first_index]) = ""

\* the action receipt that process_receipt passes to apply_action_receipt
\* when it is given the taken receipt: the receipt itself if no input is
\* missing, the postponed receipt whose last input the data receipt is
ReceiptToApply ==
    LET receipt == TakenReceipt
        data_key == <<receipt.receiver_id, receipt.data_id>>
    IN IF receipt.type = "Action"
       THEN (IF MissingInputs(su, receipt) = {} THEN Some(receipt) ELSE None)
       ELSE IF ~MapHas(su.ppid, data_key) THEN None
       ELSE LET key == <<receipt.receiver_id, su.ppid[data_key]>>
            IN IF MapGet(su.pending, key) = Some(1) THEN MapGet(su.postponed, key)
               ELSE None

\* the received data apply_action_receipt finds
ReceivedBefore ==
    IF TakenReceipt.type = "Data"
    THEN MapSet(su.received, <<TakenReceipt.receiver_id, TakenReceipt.data_id>>,
                TakenReceipt.data)
    ELSE su.received

\* every input of the receipt has its own entry among the received data
InputsPresent(receipt, received) ==
    /\ \A k \in 1..Len(receipt.input_data_ids) :
          MapHas(received, <<receipt.receiver_id, receipt.input_data_ids[k]>>)
    /\ \A j, k \in 1..Len(receipt.input_data_ids) :
          j # k => receipt.input_data_ids[j] # receipt.input_data_ids[k]

\* the promise results of the inputs, read from the received data
PromiseResultsOf(receipt, received) ==
    [k \in 1..Len(receipt.input_data_ids) |->
        LET data == received[<<receipt.receiver_id, receipt.input_data_ids[k]>>]
        IN IF IsSome(data) THEN [tag |-> "Successful", value |-> Unwrap(data)]
           ELSE [tag |-> "Failed", value |-> ""]]

\* C33: when apply_action_receipt is given a receipt one of whose inputs has
\* no received data (left) the apply fails with StorageInconsistentState
\* "received data should be in the state"; otherwise the promise results are
\* those of the inputs in input_data_ids order, Successful for a value and
\* Failed for none, and the entries are removed and the removal committed
\* whether the actions of the receipt then succeed or fail
C33_InputData ==
    [][(ProcessReceiptCalled /\ IsSome(ReceiptToApply)) =>
          LET receipt == Unwrap(ReceiptToApply)
              received == ReceivedBefore
              collected == collect_promise_results(
                               [su EXCEPT !.received = received], receipt.receiver_id,
                               receipt.input_data_ids, <<>>)
          IN IF ~InputsPresent(receipt, received)
             THEN /\ pc' = "idle"
                  /\ res'.status = "Err"
                  /\ res'.err.kind = "StorageInconsistentState"
                  /\ res'.err.msg = "received data should be in the state"
                  /\ store' = store
             ELSE /\ collected.promise_results = PromiseResultsOf(receipt, received)
                  /\ pc' # "idle" =>
                        /\ NewEvent.executed = Some(receipt)
                        /\ \A k \in 1..Len(receipt.input_data_ids) :
                              LET key == <<receipt.receiver_id, receipt.input_data_ids[k]>>
                              IN ~MapHas(su'.received, key) /\ ~MapHas(cm'.received, key)
                        /\ DOMAIN su'.received
                              = DOMAIN received
                                \ {<<receipt.receiver_id, receipt.input_data_ids[k]>> :
                                      k \in 1..Len(receipt.input_data_ids)}]_vars

\* the join receipt was executed on its second input: both entries are gone
\* from the committed state
C33_Witness ==
    /\ pc # "idle"
    /\ hist.before = JoinStore(Some(1), TRUE, TRUE)
    /\ Len(hist.trace) >= 1
    /\ hist.trace[Len(hist.trace)].executed = Some(RJoin)
    /\ cm.received = EmptyMap
    /\ hist.before.received # EmptyMap

----------------------------------------------------------------------------
(* C34: incoming receipts wait behind the delayed queue *)

\* the running apply has delayed an incoming receipt
IncomingWasDelayed ==
    \E i \in 1..Len(hist.trace) :
        hist.trace[i].phase = "incoming" /\ WasDelayed(hist.trace[i])

\* the delayed queue holds no receipt
QueueEmpty ==
    /\ loc.indices.first_index = loc.indices.next_available_index
    /\ su.delayed = EmptyMap

\* C34: an incoming receipt is handed to process_receipt only while the
\* delayed queue is empty, and once an incoming receipt of the apply has been
\* delayed every later incoming receipt of that apply is delayed as well
C34_IncomingBehindDelayed ==
    [][(pc = "incoming" /\ pc' # "idle" /\ Len(hist'.trace) = Len(hist.trace) + 1) =>
          /\ ~WasDelayed(NewEvent) => QueueEmpty
          /\ IncomingWasDelayed => WasDelayed(NewEvent)]_vars

\* a local receipt has been executed while two older receipts waited in the
\* delayed queue, and the incoming receipt of the same apply has been delayed
\* behind them
C34_Witness ==
    /\ pc = "finish"
    /\ loc.initial_indices.next_available_index - loc.initial_indices.first_index = 2
    /\ Len(hist.trace) >= 3
    /\ hist.trace[2].phase = "local" /\ hist.trace[2].what = "executed"
    /\ IncomingWasDelayed
    /\ su.delayed # EmptyMap

----------------------------------------------------------------------------
(* C35: total_gas_burnt within one apply *)

\* the running apply has put a receipt in the delayed queue
SomeWasDelayed == \E i \in 1..Len(hist.trace) : WasDelayed(hist.trace[i])

\* the step of the running apply has handled one more transaction or receipt
ItemHandled == pc # "idle" /\ pc' # "idle" /\ Len(hist'.trace) = Len(hist.trace) + 1

\* once a receipt has been put in the delayed queue, every receipt the apply
\* handles is put there too and nothing is taken from the queue, so the queue
\* never gives back a receipt of the same apply
C35_NothingAfterDelay ==
    [][ItemHandled =>
          /\ SomeWasDelayed => WasDelayed(NewEvent) /\ ~WasDequeued(NewEvent)
          /\ WasDequeued(NewEvent) =>
                /\ loc.indices.first_index < loc.initial_indices.next_available_index
                /\ \A i \in 1..Len(hist.trace) :
                      WasDelayed(hist.trace[i]) => hist.trace[i].id # NewEvent.id]_vars

\* C35: within one apply total_gas_burnt never decreases, and after the first
\* receipt has been put in the delayed queue no local, delayed or incoming
\* receipt is executed in that apply, so a receipt enqueued by an apply is
\* never dequeued by it
C35_GasNeverDecreases ==
    /\ [][(pc # "idle" /\ pc' # "idle") =>
             loc'.total_gas_burnt >= loc.total_gas_burnt]_vars
    /\ C35_NothingAfterDelay

----------------------------------------------------------------------------
(* C36: the postponed store, from the genesis state, with receipts that list
   an input twice or share an input *)

SpecPostponed == InitWith({Genesis}, {PoolData}) /\ [][Next]_vars

\* the reverse-index entries of the account that point to the receipt
ReverseIndexOf(st, account_id, receipt_id) ==
    {k \in DOMAIN st.ppid : k[1] = account_id /\ st.ppid[k] = receipt_id}

\* C36: between two receipts, a postponed receipt is stored exactly when its
\* pending data count is, the count is at least 1 and is the number of
\* reverse-index entries that point to the receipt, and no data is stored as
\* received under a data_id that has a reverse index; also for a receipt that
\* lists one data_id twice and for two receipts that await the same data_id
C36_PostponedConsistent ==
    /\ DOMAIN su.postponed = DOMAIN su.pending
    /\ \A k \in DOMAIN su.pending :
          /\ su.pending[k] >= 1
          /\ su.pending[k] = Cardinality(ReverseIndexOf(su, k[1], k[2]))
    /\ \A k \in DOMAIN su.ppid : ~IsSome(get_received_data(su, k[1], k[2]))

\* the same, as long as no receipt that lists an input twice or shares an input
\* with a stored receipt has been handled
C36_ConsistentWithoutSharing ==
    (\A i \in 1..Len(AllEvents) : AllEvents[i].id[1] # "j" \/ AllEvents[i].id[2] = 0)
        => C36_PostponedConsistent

----------------------------------------------------------------------------
(* C37: the unchecked subtractions of apply_action_receipt, on receipts of
   accounts and of the system account, with and without a gas price, in a
   build that panics on underflow and in one that wraps *)

\* a function call the system account sends at the gas price given
RSystemCall(gas_price) ==
    ActionReceipt(system_account, "alice", <<"y", gas_price>>, system_account,
                  gas_price, <<>>, <<>>, <<FunctionCall("set", 3, 0)>>)

SpecSystem ==
    /\ InitWith({Genesis},
                {[receipts |-> {RSystemCall(0), RSystemCall(GAS_PRICE), RFn, RFwdFail},
                  txs |-> {}, vaus |-> {}, wrapping |-> w] : w \in BOOLEAN})
    /\ [][Next]_vars

\* the apply ended in the panic of an unchecked subtraction
SubtractPanicked ==
    res.status = "Err" /\ res.err = ErrPanic("attempt to subtract with overflow")

\* the gas the receipt paid for: the gas attached to its actions and the fees
\* of executing them and the receipt
GasPaidFor(receipt) ==
    total_prepaid_gas(receipt.actions) + total_exec_fees(receipt.actions) + ReceiptExecFee

\* the executed receipt kept both subtractions above zero: the reward credited
\* to the receiver is at most the validator reward of gas_burnt, and the
\* refunds return at most the deposits and the gas paid for
SubtractionsInRange(receipt, outcome, st, new) ==
    LET refunds == SelectSeq(new, IsRefund)
    IN /\ (ReceiverGasReward(outcome) > 0 /\ MapHas(st.accounts, receipt.receiver_id))
              => receipt.gas_price * ReceiverGasReward(outcome)
                     <= receipt.gas_price * outcome.gas_burnt
       /\ receipt.predecessor_id # system_account =>
              /\ outcome.gas_burnt <= GasPaidFor(receipt)
              /\ SumSeq([i \in 1..Len(refunds) |-> total_deposit(refunds[i].actions)])
                     <= total_deposit(receipt.actions)
                        + receipt.gas_price * GasPaidFor(receipt)

\* C37: no executed action receipt, of an account or of the system account,
\* makes validator_reward - receiver_reward or the gas refund underflow: no
\* apply panics in a subtraction and none goes on with a wrapped difference
C37_NoUnderflow ==
    /\ [](~SubtractPanicked)
    /\ [][ReceiptExecuted =>
             SubtractionsInRange(Unwrap(NewEvent.executed), Unwrap(NewEvent.outcome),
                                 su', NewEvent.new)]_vars

\* the same of the receipts other than the function call the system account
\* sends at a gas price: no apply panics before that receipt is delivered
C37_OrdinaryReceipts ==
    /\ [](SubtractPanicked => RSystemCall(GAS_PRICE) \notin pool.receipts)
    /\ [][(ReceiptExecuted /\ Unwrap(NewEvent.executed) # RSystemCall(GAS_PRICE)) =>
             SubtractionsInRange(Unwrap(NewEvent.executed), Unwrap(NewEvent.outcome),
                                 su', NewEvent.new)]_vars

----------------------------------------------------------------------------
(* C38: a failed action receipt is consumed *)

\* the state holds nothing of the receipt: no postponed entry, no pending data
\* count, none of its input data, no entry of the delayed queue
ReceiptConsumed(st, receipt) ==
    LET key == <<receipt.receiver_id, receipt.receipt_id>>
    IN /\ ~MapHas(st.postponed, key)
       /\ ~MapHas(st.pending, key)
       /\ \A i \in 1..Len(receipt.input_data_ids) :
             ~IsSome(get_received_data(st, receipt.receiver_id, receipt.input_data_ids[i]))
       /\ \A k \in DOMAIN st.delayed : st.delayed[k] # receipt

\* the receipt was executed by an earlier step
ExecutedBefore(receipt) ==
    \E i \in 1..Len(AllEvents) :
        IsSome(AllEvents[i].executed) /\ Unwrap(AllEvents[i].executed) = receipt

\* C38: when an executed action receipt fails, the removals of its input data,
\* of its pending data count and of its postponed entry stay committed after
\* the rollback of its actions, the receipt is in no store and not in the
\* delayed queue, and it had not been executed before
C38_FailedConsumed ==
    [][(ReceiptExecuted /\ Unwrap(NewEvent.outcome).status.tag = "Failure") =>
          /\ ReceiptConsumed(su', Unwrap(NewEvent.executed))
          /\ ReceiptConsumed(cm', Unwrap(NewEvent.executed))
          /\ ~ExecutedBefore(Unwrap(NewEvent.executed))]_vars

\* a postponed receipt was completed by its data receipt, failed, and the
\* apply that executed it returned Ok with the receipt and its input gone
C38_Witness ==
    /\ pc = "idle"
    /\ res.status = "Ok"
    /\ MapHas(hist.before.postponed, <<"alice", <<"j", 3>>>>)
    /\ \E i \in 1..Len(hist.trace) :
          /\ hist.trace[i].id = RData2.receipt_id
          /\ IsSome(hist.trace[i].executed)
          /\ Unwrap(hist.trace[i].executed).receipt_id = <<"j", 3>>
          /\ Unwrap(hist.trace[i].outcome).status.tag = "Failure"
    /\ ~MapHas(store.postponed, <<"alice", <<"j", 3>>>>)
    /\ ~MapHas(store.pending, <<"alice", <<"j", 3>>>>)
    /\ ~IsSome(get_received_data(store, "alice", "d2"))

----------------------------------------------------------------------------
(* C39: progress of the delayed queue *)

\* the gas burnt by the transactions the running apply has converted
TxGasBurnt ==
    SumSeq([i \in 1..Len(hist.trace) |->
               IF hist.trace[i].phase = "tx" THEN Unwrap(hist.trace[i].outcome).gas_burnt
               ELSE 0])

\* the delayed queue of the state holds a receipt
QueueWaiting(st) ==
    get_delayed_indices(st).first_index < get_delayed_indices(st).next_available_index

\* a delayed receipt is dequeued only under a gas limit of at least 1 that the
\* transactions of the apply have not burnt
C39_NoDrainWithoutBudget ==
    [][(ItemHandled /\ WasDequeued(NewEvent)) =>
          /\ gas_limit_of(inp.ast) >= 1
          /\ TxGasBurnt < gas_limit_of(inp.ast)]_vars

\* an apply without transactions, under a gas limit of at least 1 or none,
\* that found receipts in the delayed queue has dequeued one when its loop
\* over the queue is over
C39_DrainsOne ==
    (PastDelayedLoop /\ inp.txs = <<>> /\ gas_limit_of(inp.ast) >= 1
     /\ QueueWaiting(hist.before))
        => \E i \in 1..Len(hist.trace) : WasDequeued(hist.trace[i])

\* C39: an apply without transactions under a gas limit of at least 1, or
\* none, that starts with a non-empty delayed queue dequeues a receipt; and no
\* delayed receipt is dequeued under gas_limit = 0 or after transactions that
\* burnt gas_limit or more
C39_DrainProgress ==
    /\ [](C39_DrainsOne)
    /\ C39_NoDrainWithoutBudget

\* the apply of a block that brings nothing, under the gas limit and at the
\* block index of the applies before it, while receipts wait in the queue
BeginIdleApply ==
    /\ pc = "idle"
    /\ height >= 1
    /\ QueueWaiting(store)
    /\ inp' = [inp EXCEPT !.incoming = <<>>]
    /\ su' = store
    /\ cm' = store
    /\ loc' = InitLoc
    /\ res' = NoResult
    /\ pc' = "validators"
    /\ hist' = [hist EXCEPT !.before = store, !.trace = <<>>, !.lost = 0]
    /\ UNCHANGED <<store, height, pool>>

\* no step of a running apply and no apply of an empty block is enabled
DrainQuiescent == pc = "idle" /\ (height = 0 \/ ~QueueWaiting(store))

\* the stream of C16 followed by applies of empty blocks, under weak fairness
\* of the steps of a running apply and of BeginIdleApply, written with their
\* enabling condition: an apply that has started runs to its end, and a block
\* is applied as long as receipts wait
SpecDrainFair ==
    /\ InitDrain
    /\ [][NextDrain \/ BeginIdleApply]_vars
    /\ ([]<>DrainQuiescent \/ []<><<TRUE>>_vars)

\* under repeated applies that bring no transaction the delayed queue is
\* empty in the end
C39_EventuallyEmpty ==
    QueueWaiting(store) ~> (pc = "idle" /\ res.status = "Ok" /\ ~QueueWaiting(store))

----------------------------------------------------------------------------
(* C40: the transactions and the gas budget *)

IsTxEvent(ev) == ev.phase = "tx"

\* the events of the receipts the running apply has handled
ReceiptEvents == SelectSeq(hist.trace, LAMBDA ev : ~IsTxEvent(ev))

\* total_gas_burnt when the loop over the transactions is over: the sum of the
\* gas they burnt, in the width of Gas
TxTotal == TxGasBurnt % (U64_MAX + 1)

====
